---- MODULE Spec2Model ----
(***************************************************************************)
(* Document model of the open-design-sdk octopus reader: Artboard, Page    *)
(* and Design, together with the memoized accessor the derived layer views *)
(* are built on.                                                           *)
(*                                                                         *)
(* SpecArtboard drives the content and the layer views of one Artboard,    *)
(* SpecManifest its content, manifest and page assignment.  Spec drives a  *)
(* Design whose artboards are added, removed, listed and looked up, and    *)
(* SpecPages a Design with pages.  SpecMemo drives one memoized function,  *)
(* SpecSearch, SpecLayers and SpecAssets the layers of a loaded Artboard   *)
(* (search, depth and parents, bitmap assets), SpecLookups the lookups of  *)
(* a Design across its artboards, and SpecSdk the lifecycle of the Sdk.    *)
(* SpecFacade drives a layer collection facade, SpecRelations the parent   *)
(* and mask lookups of layers a caller holds, SpecFrame the artboards of a *)
(* Design while others are added and removed, SpecPageLookups the lookups  *)
(* of a Page, SpecComponent the component id of an Artboard, and           *)
(* SpecRendering the load() calls of a rendering artboard.                 *)
(***************************************************************************)
EXTENDS Integers, Sequences, FiniteSets, TLC

(***************************************************************************)
(* JavaScript values                                                       *)
(***************************************************************************)
\* null and undefined of the string-valued fields (ids, names).
Null == "null"
Undefined == "undefined"

\* JavaScript truthiness of a string-valued field: x || y takes y for
\* undefined, null and the empty string.
Truthy(x) == x \notin {Undefined, Null, ""}
OrElse(x, y) == IF Truthy(x) THEN x ELSE y

\* Number.POSITIVE_INFINITY, the "unlimited" depth.
Infinity == 1000
\* Infinity - 1 is Infinity.
Dec(d) == IF d = Infinity THEN Infinity ELSE d - 1

(***************************************************************************)
(* Bounds and input sets                                                   *)
(***************************************************************************)
ArtboardIds == {"a", "b"}
PageIds == {"p1", "p2"}
Names == {"Abc", "Def"}
ComponentIds == {"s1"}

\* Layer content: a layer is its id and its directly nested layers.
LeafLayer(id) == [id |-> id, layers |-> <<>>]
GroupLayer(id, nested) == [id |-> id, layers |-> nested]

\* Octopus documents.  The missing document (null) is the record NoOctopus.
NoOctopus == [present |-> FALSE, symbolID |-> Undefined, layers |-> <<>>]
Octopus(symbolID, layers) == [present |-> TRUE, symbolID |-> symbolID, layers |-> layers]

LayerTrees ==
    { <<>>,
      <<GroupLayer("l1", <<GroupLayer("l2", <<LeafLayer("l3")>>)>>)>>,
      <<LeafLayer("l4"), LeafLayer("l1")>>,
      <<GroupLayer("l1", <<LeafLayer("l2")>>), LeafLayer("l4")>> }

(***************************************************************************)
(* Memoized accessor (memoize-utils.ts)                                    *)
(*                                                                         *)
(* An argument value is undefined or an object.  An object has an identity *)
(* (ref), a set of own keys and their number values (vals; the value of a  *)
(* key the object lacks is not read).                                      *)
(* An argument list is a sequence of argument values; a cache is a         *)
(* sequence of entries [args, result].                                     *)
(***************************************************************************)
JsUndefined == [kind |-> "undefined", ref |-> 0, keys |-> {}, vals |-> [depth |-> 0]]
JsObject(ref, keys, vals) == [kind |-> "object", ref |-> ref, keys |-> keys, vals |-> vals]
\* {} and {depth: d}
EmptyOptions(ref) == JsObject(ref, {}, [depth |-> 0])
DepthOptions(ref, d) == JsObject(ref, {"depth"}, [depth |-> d])

\* a === b
StrictEquals(a, b) ==
    /\ a.kind = b.kind
    /\ (a.kind = "object" => a.ref = b.ref)

\* Property values are numbers, neither arrays nor objects, so below the
\* first level shallowEqual(a[key], b[key], depth - 1) is a[key] === b[key].
ShallowEqualObjects(a, b, depth) ==
    \A key \in a.keys \cup b.keys :
        /\ key \in a.keys
        /\ key \in b.keys
        /\ a.vals[key] = b.vals[key]

\* No argument value is an array, so the first branch of the source never applies.
ShallowEqual(a, b, depth) ==
    IF a.kind = "object" /\ b.kind = "object"
    THEN ShallowEqualObjects(a, b, depth)
    ELSE StrictEquals(a, b)

Max(m, n) == IF m >= n THEN m ELSE n
\* a[i] of a JavaScript array: undefined beyond its length.
ElementAt(a, i) == IF i <= Len(a) THEN a[i] ELSE JsUndefined

\* Mutant of ShallowEqualArrays: elements are compared by identity at every depth.
ShallowEqualArrays_identity(a, b, depth) ==
    \A i \in 1..Max(Len(a), Len(b)) : StrictEquals(ElementAt(a, i), ElementAt(b, i))

ShallowEqualArrays(a, b, depth) ==
    \A i \in 1..Max(Len(a), Len(b)) :
        IF depth <= 1
        THEN StrictEquals(ElementAt(a, i), ElementAt(b, i))
        ELSE ShallowEqual(ElementAt(a, i), ElementAt(b, i), depth - 1)

\* cache.find(...): the index of the first entry whose args equal args, or 0.
MemoFind(cache, args, depth) ==
    LET hits == { i \in 1..Len(cache) : ShallowEqualArrays(args, cache[i].args, depth) }
    IN  IF hits = {} THEN 0 ELSE CHOOSE i \in hits : \A j \in hits : i <= j

\* Mutant of Memoizer: a single-slot cache, a computed entry replaces the cache.
Memoizer_singleSlot(cache, args, depth, computed) ==
    LET i == MemoFind(cache, args, depth)
    IN  IF i # 0
        THEN [result |-> cache[i].result, cache |-> cache]
        ELSE [result |-> computed,
              cache |-> <<[args |-> args, result |-> computed]>>]

\* memoizer(...args) where computed is fn(...args): the value returned and the
\* cache afterwards.
Memoizer(cache, args, depth, computed) ==
    LET i == MemoFind(cache, args, depth)
    IN  IF i # 0
        THEN [result |-> cache[i].result, cache |-> cache]
        ELSE [result |-> computed,
              cache |-> Append(cache, [args |-> args, result |-> computed])]

\* Mutant of MemoClear: the entries are kept.
MemoClear_keepsEntries(cache) == cache

\* memoizer.clear()
MemoClear(cache) == SubSeq(cache, 1, 0)

(***************************************************************************)
(* Layer and layer factories                                               *)
(***************************************************************************)
\* new Layer(layerOctopus, {parentLayerId, artboard}); artboard is the id of
\* the owning artboard, Null for a detached layer.
Layer(layerOctopus, parentLayerId, artboard) ==
    [octopus |-> layerOctopus,
     artboard |-> OrElse(artboard, Null),
     parentLayerId |-> OrElse(parentLayerId, Null)]

Layer_id(layer) == layer.octopus.id

\* createLayers(layerDataList, {parentLayerId, artboard})
CreateLayers(layerDataList, parentLayerId, artboard) ==
    [i \in 1..Len(layerDataList) |-> Layer(layerDataList[i], parentLayerId, artboard)]

\* createFlattenedLayers(layerDataList, {artboard, depth}): every layer of the
\* list followed by its nested layers down to depth levels, in document order.
RECURSIVE FlattenLayers(_, _, _, _)
FlattenLayers(layerDataList, parentLayerId, artboard, depth) ==
    IF layerDataList = <<>>
    THEN <<>>
    ELSE LET head == layerDataList[1]
         IN  <<Layer(head, parentLayerId, artboard)>>
             \o (IF depth = 1
                 THEN <<>>
                 ELSE FlattenLayers(head.layers, head.id, artboard, Dec(depth)))
             \o FlattenLayers(Tail(layerDataList), parentLayerId, artboard, depth)

CreateFlattenedLayers(layerDataList, artboard, depth) ==
    FlattenLayers(layerDataList, Null, artboard, depth)

\* The ids of a layer collection, in order.
LayerIds(layers) == [i \in 1..Len(layers) |-> Layer_id(layers[i])]

(***************************************************************************)
(* Artboard (page.ts, class Artboard)                                      *)
(*                                                                         *)
(* An artboard is [uid, manifest, octopus, attached, rootLayersCache,      *)
(* flattenedLayersCache]: uid is the identity of the object, attached says *)
(* whether _design is set.  The owning design is handed to the operations  *)
(* that read it as [present, pages], pages mapping the ids of its pages to *)
(* [name].                                                                 *)
(***************************************************************************)
NoManifest ==
    [present |-> FALSE,
     artboard_original_id |-> Undefined, artboard_name |-> Undefined,
     is_symbol |-> FALSE, symbol_id |-> Undefined,
     page_original_id |-> Undefined, page_name |-> Undefined,
     failed |-> FALSE, url |-> Undefined, preview_url |-> Undefined]

NoPages == [p \in {} |-> [name |-> Null]]
NoDesign == [present |-> FALSE, pages |-> NoPages]
DesignWith(pageMap) == [present |-> TRUE, pages |-> pageMap]

\* design.getPageById(pageId)?.name
PageNameIn(design, pageId) ==
    IF design.present /\ Truthy(pageId) /\ pageId \in DOMAIN design.pages
    THEN design.pages[pageId].name
    ELSE Undefined

\* A _createManifest that takes the component id from the content alone.
CreateManifest_fromContentOnly(prevManifest, octopus, params, design) ==
    LET pageId == IF params.pageId = Undefined
                  THEN prevManifest.page_original_id
                  ELSE params.pageId
        componentId == IF params.componentId = Undefined
                       THEN octopus.symbolID
                       ELSE params.componentId
        name == IF params.name = Undefined
                THEN prevManifest.artboard_name
                ELSE params.name
        base == IF prevManifest.present
                THEN prevManifest
                ELSE [NoManifest EXCEPT !.failed = FALSE, !.url = Null,
                                        !.preview_url = Null]
        pageName == OrElse(OrElse(PageNameIn(design, pageId),
                                  IF pageId = prevManifest.page_original_id
                                  THEN prevManifest.page_name
                                  ELSE Null),
                           Null)
    IN  [base EXCEPT
            !.present = TRUE,
            !.artboard_original_id = params.id,
            !.artboard_name = OrElse(name, Null),
            !.is_symbol = Truthy(componentId),
            !.symbol_id = OrElse(componentId, Null),
            !.page_original_id = IF Truthy(pageId) THEN pageId ELSE @,
            !.page_name = IF Truthy(pageId) THEN pageName ELSE @]

\* params is [id, pageId, componentId, name]; a parameter left out is Undefined.
CreateManifest(prevManifest, octopus, params, design) ==
    LET pageId == IF params.pageId = Undefined
                  THEN prevManifest.page_original_id
                  ELSE params.pageId
        componentId == IF params.componentId = Undefined
                       THEN OrElse(octopus.symbolID, prevManifest.symbol_id)
                       ELSE params.componentId
        name == IF params.name = Undefined
                THEN prevManifest.artboard_name
                ELSE params.name
        base == IF prevManifest.present
                THEN prevManifest
                ELSE [NoManifest EXCEPT !.failed = FALSE, !.url = Null,
                                        !.preview_url = Null]
        pageName == OrElse(OrElse(PageNameIn(design, pageId),
                                  IF pageId = prevManifest.page_original_id
                                  THEN prevManifest.page_name
                                  ELSE Null),
                           Null)
    IN  [base EXCEPT
            !.present = TRUE,
            !.artboard_original_id = params.id,
            !.artboard_name = OrElse(name, Null),
            !.is_symbol = Truthy(componentId),
            !.symbol_id = OrElse(componentId, Null),
            !.page_original_id = IF Truthy(pageId) THEN pageId ELSE @,
            !.page_name = IF Truthy(pageId) THEN pageName ELSE @]

ManifestParams(id, pageId, componentId, name) ==
    [id |-> id, pageId |-> pageId, componentId |-> componentId, name |-> name]

\* Mutant of NewArtboard: the id handed to the constructor is not written to
\* the manifest.
NewArtboard_dropsId(uid, id, octopus, params) ==
    [uid |-> uid,
     manifest |-> CreateManifest(params.manifest, octopus,
                     ManifestParams(params.manifest.artboard_original_id,
                                    params.pageId, params.componentId, params.name),
                     NoDesign),
     octopus |-> octopus,
     attached |-> params.attached,
     rootLayersCache |-> <<>>,
     flattenedLayersCache |-> <<>>]

\* new Artboard(id, octopus, params); params is [manifest, pageId, componentId,
\* name, attached].  The manifest is created before _design is assigned.
NewArtboard(uid, id, octopus, params) ==
    [uid |-> uid,
     manifest |-> CreateManifest(params.manifest, octopus,
                     ManifestParams(id, params.pageId, params.componentId, params.name),
                     NoDesign),
     octopus |-> octopus,
     attached |-> params.attached,
     rootLayersCache |-> <<>>,
     flattenedLayersCache |-> <<>>]

Artboard_id(ab) == ab.manifest.artboard_original_id
Artboard_componentId(ab) == OrElse(ab.manifest.symbol_id, Null)
Artboard_pageId(ab) == OrElse(ab.manifest.page_original_id, Null)
Artboard_name(ab) == OrElse(ab.manifest.artboard_name, Null)
Artboard_getManifest(ab) == ab.manifest
Artboard_isLoaded(ab) == ab.octopus.present
Artboard_getOctopus(ab) == ab.octopus
Artboard_isComponent(ab) == Truthy(Artboard_componentId(ab))

\* Mutant of Artboard_setManifest: the id of the next manifest is not checked.
Artboard_setManifest_unchecked(ab, nextManifest, design) ==
    [error |-> FALSE,
     ab |-> [ab EXCEPT !.manifest =
               CreateManifest(nextManifest, ab.octopus,
                   ManifestParams(ab.manifest.artboard_original_id,
                                  Undefined, Undefined, Undefined),
                   design)]]

\* setManifest: [error, ab]
Artboard_setManifest(ab, nextManifest, design) ==
    IF nextManifest.artboard_original_id # Artboard_id(ab)
    THEN [error |-> TRUE, ab |-> ab]
    ELSE [error |-> FALSE,
          ab |-> [ab EXCEPT !.manifest =
                    CreateManifest(nextManifest, ab.octopus,
                        ManifestParams(Artboard_id(ab), Undefined, Undefined, Undefined),
                        design)]]

\* Mutant of Artboard_unload: the content is kept.
Artboard_unload_keepsContent(ab) == ab

Artboard_unload(ab) == [ab EXCEPT !.octopus = NoOctopus]

\* Mutant of Artboard_setOctopus: the layer-view caches are not cleared.
Artboard_setOctopus_keepsCaches(ab, nextOctopus, design) ==
    [ab EXCEPT
        !.octopus = nextOctopus,
        !.manifest = CreateManifest(ab.manifest, nextOctopus,
                        ManifestParams(ab.manifest.artboard_original_id,
                                       Undefined, Undefined, Undefined),
                        design)]

Artboard_setOctopus(ab, nextOctopus, design) ==
    [ab EXCEPT
        !.octopus = nextOctopus,
        !.manifest = CreateManifest(ab.manifest, nextOctopus,
                        ManifestParams(Artboard_id(ab), Undefined, Undefined, Undefined),
                        design),
        !.rootLayersCache = MemoClear(@),
        !.flattenedLayersCache = MemoClear(@)]

Artboard_setPage(ab, nextPageId, design) ==
    [ab EXCEPT !.manifest =
        CreateManifest(ab.manifest, ab.octopus,
            ManifestParams(Artboard_id(ab), nextPageId, Undefined, Undefined),
            design)]

Artboard_unassignFromPage(ab, design) ==
    [ab EXCEPT !.manifest =
        CreateManifest(ab.manifest, ab.octopus,
            ManifestParams(Artboard_id(ab), Null, Undefined, Undefined),
            design)]

\* design.getPageById(pageId): the id of the page found, or Null.
Design_getPageById(design, pageId) ==
    IF pageId \in DOMAIN design.pages THEN pageId ELSE Null

\* Mutant of Artboard_getPage: a detached artboard has no page.
Artboard_getPage_detachedIsNull(ab, design) ==
    IF ~Truthy(OrElse(ab.manifest.page_original_id, Null)) \/ ~design.present
    THEN [error |-> FALSE, page |-> Null]
    ELSE [error |-> FALSE,
          page |-> Design_getPageById(design, ab.manifest.page_original_id)]

\* getPage(): [error, page]
Artboard_getPage(ab, design) ==
    IF ~Truthy(Artboard_pageId(ab))
    THEN [error |-> FALSE, page |-> Null]
    ELSE IF ~design.present
         THEN [error |-> TRUE, page |-> Null]
         ELSE [error |-> FALSE, page |-> Design_getPageById(design, Artboard_pageId(ab))]

\* The computation getRootLayers wraps.
ComputeRootLayers(ab) == CreateLayers(ab.octopus.layers, Null, Artboard_id(ab))

\* getRootLayers(): [result, ab]
Artboard_getRootLayers(ab) ==
    LET m == Memoizer(ab.rootLayersCache, <<>>, 1, ComputeRootLayers(ab))
    IN  [result |-> m.result, ab |-> [ab EXCEPT !.rootLayersCache = m.cache]]

\* Mutant of OptionsDepth: the depth option is not read.
OptionsDepth_unlimited(args) == Infinity

\* options.depth || Infinity of the argument list of getFlattenedLayers.
OptionsDepth(args) ==
    IF args # <<>> /\ args[1].kind = "object" /\ "depth" \in args[1].keys
       /\ args[1].vals.depth # 0
    THEN args[1].vals.depth
    ELSE Infinity

\* The computation getFlattenedLayers wraps.
ComputeFlattenedLayers(ab, args) ==
    CreateFlattenedLayers(ab.octopus.layers, Artboard_id(ab), OptionsDepth(args))

\* getFlattenedLayers(...args): [result, ab]
Artboard_getFlattenedLayers(ab, args) ==
    LET m == Memoizer(ab.flattenedLayersCache, args, 2, ComputeFlattenedLayers(ab, args))
    IN  [result |-> m.result, ab |-> [ab EXCEPT !.flattenedLayersCache = m.cache]]

(***************************************************************************)
(* Design (nodes/design.ts) and artboard selectors                         *)
(*                                                                         *)
(* The design holds its artboards in insertion order.  A list of artboards *)
(* handed to a caller is [live, items]: items are references [uid, id] to  *)
(* artboard objects; a live list is the design's own list, an independent  *)
(* one has live = FALSE.  An absent artboard is the reference NoArtboard.  *)
(***************************************************************************)
NoArtboard == [uid |-> 0, id |-> Null]
Ref(ab) == [uid |-> ab.uid, id |-> ab.manifest.artboard_original_id]
Refs(abs) == [i \in 1..Len(abs) |-> Ref(abs[i])]

\* References to the artboards of the list whose uid is in keep, in list order.
RECURSIVE SelectRefs(_, _)
SelectRefs(abs, keep) ==
    IF abs = <<>>
    THEN <<>>
    ELSE (IF abs[1].uid \in keep THEN <<Ref(abs[1])>> ELSE <<>>)
         \o SelectRefs(Tail(abs), keep)

HasArtboard(list, id) == \E i \in 1..Len(list) : Artboard_id(list[i]) = id
IndexOf(list, id) == CHOOSE i \in 1..Len(list) : Artboard_id(list[i]) = id

\* Selectors: {id}, {name: 'x'}, {name: ['x', 'y']}, {name: /x|y/}.  A name
\* pattern is given by the set of names it matches.
IdSelector(id) == [kind |-> "id", id |-> id, names |-> {}]
NameSelector(name) == [kind |-> "name", id |-> Null, names |-> {name}]
NameListSelector(names) == [kind |-> "nameList", id |-> Null, names |-> names]
NamePatternSelector(names) == [kind |-> "namePattern", id |-> Null, names |-> names]

\* matchArtboard(selector, artboard)
MatchArtboard(selector, ab) ==
    IF selector.kind = "id"
    THEN Artboard_id(ab) = selector.id
    ELSE Artboard_name(ab) \in selector.names

\* Mutant of Design_addArtboard: an artboard with an id the design already
\* has is appended as well.
Design_addArtboard_allowsDuplicate(list, uid, id, octopus, params) ==
    [error |-> FALSE,
     list |-> Append(list, NewArtboard(uid, id, octopus,
                               [params EXCEPT !.attached = TRUE]))]

\* addArtboard(id, octopus, params): [error, list]
Design_addArtboard(list, uid, id, octopus, params) ==
    IF HasArtboard(list, id)
    THEN [error |-> TRUE, list |-> list]
    ELSE [error |-> FALSE,
          list |-> Append(list, NewArtboard(uid, id, octopus,
                                    [params EXCEPT !.attached = TRUE]))]

\* Mutant of Design_removeArtboard: the layer views of the artboards that
\* stay are cleared along with the aggregates of the design.
Design_removeArtboard_clearsViews(list, id) ==
    IF ~HasArtboard(list, id)
    THEN [removed |-> FALSE, list |-> list]
    ELSE LET i == IndexOf(list, id)
             rest == SubSeq(list, 1, i - 1) \o SubSeq(list, i + 1, Len(list))
         IN  [removed |-> TRUE,
              list |-> [j \in 1..Len(rest) |->
                          [rest[j] EXCEPT !.rootLayersCache = <<>>,
                                          !.flattenedLayersCache = <<>>]]]

\* removeArtboard(id): [removed, list]
Design_removeArtboard(list, id) ==
    IF ~HasArtboard(list, id)
    THEN [removed |-> FALSE, list |-> list]
    ELSE LET i == IndexOf(list, id)
         IN  [removed |-> TRUE,
              list |-> SubSeq(list, 1, i - 1) \o SubSeq(list, i + 1, Len(list))]

Design_getArtboardById(list, id) ==
    IF HasArtboard(list, id) THEN Ref(list[IndexOf(list, id)]) ELSE NoArtboard

\* Mutant of Design_getArtboards: the design's own list is handed out.
Design_getArtboards_live(list) == [live |-> TRUE, items |-> <<>>]

Design_getArtboards(list) == [live |-> FALSE, items |-> Refs(list)]

Design_getPageArtboards(list, pageId) ==
    [live |-> FALSE,
     items |-> SelectRefs(list,
                  { list[i].uid : i \in { j \in 1..Len(list) :
                                            Artboard_pageId(list[j]) = pageId } })]

Design_getComponentArtboards(list) ==
    [live |-> FALSE,
     items |-> SelectRefs(list,
                  { list[i].uid : i \in { j \in 1..Len(list) :
                                            Artboard_componentId(list[j]) # Null } })]

\* findArtboards(selector): the matching artboards in insertion order.
Design_findArtboards(list, selector) ==
    IF selector.kind = "id"
    THEN (IF HasArtboard(list, selector.id)
          THEN <<Design_getArtboardById(list, selector.id)>>
          ELSE <<>>)
    ELSE SelectRefs(list,
            { list[i].uid : i \in { j \in 1..Len(list) :
                                      MatchArtboard(selector, list[j]) } })

\* Mutant of Design_findArtboard: the last matching artboard is returned.
Design_findArtboard_last(list, selector) ==
    IF selector.kind = "id"
    THEN Design_getArtboardById(list, selector.id)
    ELSE LET hits == { i \in 1..Len(list) : MatchArtboard(selector, list[i]) }
         IN  IF hits = {}
             THEN NoArtboard
             ELSE Ref(list[CHOOSE i \in hits : \A j \in hits : i >= j])

\* findArtboard(selector): the first matching artboard, if any.
Design_findArtboard(list, selector) ==
    IF selector.kind = "id"
    THEN Design_getArtboardById(list, selector.id)
    ELSE LET hits == { i \in 1..Len(list) : MatchArtboard(selector, list[i]) }
         IN  IF hits = {}
             THEN NoArtboard
             ELSE Ref(list[CHOOSE i \in hits : \A j \in hits : i <= j])

(***************************************************************************)
(* Page (page.ts, class Page).  The page is given by its id; the design it *)
(* reads is the artboard list and the page map.                            *)
(***************************************************************************)
\* design.addPage(pageId, {name}) and design.removePage(pageId)
Design_addPage(pageMap, pageId, name) ==
    [p \in (DOMAIN pageMap) \cup {pageId} |->
        IF p = pageId THEN [name |-> OrElse(name, Null)] ELSE pageMap[p]]

Design_removePage(pageMap, pageId) ==
    [p \in (DOMAIN pageMap) \ {pageId} |-> pageMap[p]]

\* Mutant of Page_getArtboards: the list is not restricted to the page.
Page_getArtboards_unfiltered(list, pageId) == Design_getArtboards(list)

Page_getArtboards(list, pageId) == Design_getPageArtboards(list, pageId)

Page_getArtboardById(list, pageId, artboardId) ==
    LET artboard == Design_getArtboardById(list, artboardId)
    IN  IF artboard = NoArtboard
           \/ Artboard_pageId(list[IndexOf(list, artboardId)]) # pageId
        THEN NoArtboard
        ELSE artboard

\* The list with the artboard artboardId replaced by its next state.
ReplaceArtboard(list, artboardId, nextAb) ==
    [list EXCEPT ![IndexOf(list, artboardId)] = nextAb]

\* addArtboard(artboardId): [error, list]
Page_addArtboard(list, pageMap, pageId, artboardId) ==
    IF Page_getArtboardById(list, pageId, artboardId) = NoArtboard
    THEN [error |-> TRUE, list |-> list]
    ELSE [error |-> FALSE,
          list |-> ReplaceArtboard(list, artboardId,
                      Artboard_setPage(list[IndexOf(list, artboardId)], pageId,
                                       DesignWith(pageMap)))]

\* Mutant of Page_removeArtboard: the artboard is not required to be on the page.
Page_removeArtboard_anyPage(list, pageId, artboardId) ==
    Design_removeArtboard(list, artboardId)

\* removeArtboard(artboardId): [removed, list]
Page_removeArtboard(list, pageId, artboardId) ==
    IF Page_getArtboardById(list, pageId, artboardId) = NoArtboard
    THEN [removed |-> FALSE, list |-> list]
    ELSE Design_removeArtboard(list, artboardId)

\* unassignArtboard(artboardId): [unassigned, list]
Page_unassignArtboard(list, pageMap, pageId, artboardId) ==
    IF Page_getArtboardById(list, pageId, artboardId) = NoArtboard
    THEN [unassigned |-> FALSE, list |-> list]
    ELSE [unassigned |-> TRUE,
          list |-> ReplaceArtboard(list, artboardId,
                      Artboard_unassignFromPage(list[IndexOf(list, artboardId)],
                                                DesignWith(pageMap)))]

(***************************************************************************)
(* Layer collections and layer search (page.ts, class Layer)               *)
(*                                                                         *)
(* A layer collection is a sequence of layers.  A layer selector is given  *)
(* by the ids of the layers it matches: (layer) => ids.includes(layer.id). *)
(***************************************************************************)
NoLayer == Layer(LeafLayer(Null), Null, Null)
LayerSelector(ids) == [kind |-> "function", ids |-> ids]
MatchLayer(selector, layer) == Layer_id(layer) \in selector.ids

\* collection.flatten({depth}): every layer of the collection followed by its
\* nested layers down to depth levels, in document order.
RECURSIVE LayerCollection_flatten(_, _)
LayerCollection_flatten(layers, depth) ==
    IF layers = <<>>
    THEN <<>>
    ELSE <<layers[1]>>
         \o (IF depth = 1
             THEN <<>>
             ELSE FlattenLayers(layers[1].octopus.layers, Layer_id(layers[1]),
                                layers[1].artboard, Dec(depth)))
         \o LayerCollection_flatten(Tail(layers), depth)

\* collection.findLayers(selector, {depth}): args is the list of the options
\* handed over, depth unset or 0 means no limit.
LayerCollection_findLayers(layers, selector, args) ==
    LET Matching(layer) == MatchLayer(selector, layer)
    IN  SelectSeq(LayerCollection_flatten(layers, OptionsDepth(args)), Matching)

\* collection.findLayer(selector, {depth})
LayerCollection_findLayer(layers, selector, args) ==
    LET found == LayerCollection_findLayers(layers, selector, args)
    IN  IF found = <<>> THEN NoLayer ELSE found[1]

\* collection.getLayerById(layerId)
LayerCollection_getLayerById(layers, layerId) ==
    LayerCollection_findLayer(layers, LayerSelector({layerId}), <<DepthOptions(0, 1)>>)

\* layer._getDirectlyNestedLayers()
Layer_getDirectlyNestedLayers(layer) ==
    CreateLayers(layer.octopus.layers, Layer_id(layer), layer.artboard)

\* Mutant of Layer_findNestedLayers: level by level, the matching directly
\* nested layers come before the matches nested in them.
Layer_findNestedLayers_levelByLevel(layer, selector, args) ==
    LET nested == Layer_getDirectlyNestedLayers(layer)
        found == LayerCollection_findLayers(nested, selector, <<DepthOptions(0, OptionsDepth(args))>>)
        Direct(l) == l.parentLayerId = Layer_id(layer)
        Deeper(l) == l.parentLayerId # Layer_id(layer)
    IN  SelectSeq(found, Direct) \o SelectSeq(found, Deeper)

\* layer.findNestedLayers(selector, options); args is the list of the options
\* handed over.
Layer_findNestedLayers(layer, selector, args) ==
    LayerCollection_findLayers(Layer_getDirectlyNestedLayers(layer), selector,
                               <<DepthOptions(0, OptionsDepth(args))>>)

\* layer.findNestedLayer(selector, options)
Layer_findNestedLayer(layer, selector, args) ==
    LayerCollection_findLayer(Layer_getDirectlyNestedLayers(layer), selector,
                              <<DepthOptions(0, OptionsDepth(args))>>)

\* artboard.getLayerById(layerId): [result, ab]
Artboard_getLayerById(ab, layerId) ==
    LET call == Artboard_getFlattenedLayers(ab, <<>>)
    IN  [result |-> LayerCollection_getLayerById(call.result, layerId), ab |-> call.ab]

\* options.depth || 1 of the options list of getNestedLayers.
NestedLayersDepth(args) ==
    IF args # <<>> /\ args[1].kind = "object" /\ "depth" \in args[1].keys
       /\ args[1].vals.depth # 0
    THEN args[1].vals.depth
    ELSE 1

\* layer.getNestedLayers(options); args is the list of the options handed
\* over.  The layer's content never changes, so the memoized call returns
\* what the computation returns.
Layer_getNestedLayers(layer, args) ==
    LET depth == NestedLayersDepth(args)
        nestedLayers == Layer_getDirectlyNestedLayers(layer)
    IN  IF depth = 1
        THEN nestedLayers
        ELSE LayerCollection_flatten(nestedLayers, Dec(depth))

\* The missing depth (null) of getLayerDepth.
NoDepth == 0

\* F(value): value is computed once and handed to F, as a const of the code
\* holds the result of one call.
With(value, F(_)) == CHOOSE result \in { F(x) : x \in {value} } : TRUE

\* layer.getDepth() and artboard.getLayerDepth(layerId): [error, depth].  ab is
\* the artboard the layer belongs to; a detached layer has none.
RECURSIVE Layer_getDepth(_, _)
RECURSIVE Artboard_getLayerDepth(_, _)

\* Mutant of Layer_getDepth: the depth of the parent is not counted beyond
\* the first level.
Layer_getDepth_flat(layer, ab) ==
    IF ~Truthy(layer.parentLayerId)
    THEN [error |-> FALSE, depth |-> 1]
    ELSE [error |-> layer.artboard = Null, depth |-> IF layer.artboard = Null THEN NoDepth ELSE 2]

Layer_getDepth(layer, ab) ==
    IF ~Truthy(layer.parentLayerId)
    THEN [error |-> FALSE, depth |-> 1]
    ELSE IF layer.artboard = Null
         THEN [error |-> TRUE, depth |-> NoDepth]
         ELSE LET Counted(parentLayerDepth) ==
                      IF parentLayerDepth.error \/ parentLayerDepth.depth = NoDepth
                      THEN [error |-> TRUE, depth |-> NoDepth]
                      ELSE [error |-> FALSE, depth |-> 1 + parentLayerDepth.depth]
              IN  With(Artboard_getLayerDepth(ab, layer.parentLayerId), Counted)

Artboard_getLayerDepth(ab, layerId) ==
    LET DepthOf(layer) ==
            IF layer = NoLayer
            THEN [error |-> FALSE, depth |-> NoDepth]
            ELSE Layer_getDepth(layer, ab)
    IN  With(Artboard_getLayerById(ab, layerId).result, DepthOf)

\* Mutant of Layer_getParentLayer: a detached layer has no parent layer.
Layer_getParentLayer_detachedIsNull(layer, ab) ==
    IF ~Truthy(layer.parentLayerId) \/ layer.artboard = Null
    THEN [error |-> FALSE, layer |-> NoLayer]
    ELSE LET parentLayer == Artboard_getLayerById(ab, layer.parentLayerId).result
         IN  [error |-> parentLayer = NoLayer, layer |-> parentLayer]

\* layer.getParentLayer(): [error, layer]
Layer_getParentLayer(layer, ab) ==
    IF ~Truthy(layer.parentLayerId)
    THEN [error |-> FALSE, layer |-> NoLayer]
    ELSE IF layer.artboard = Null
         THEN [error |-> TRUE, layer |-> NoLayer]
         ELSE LET Found(parentLayer) ==
                      IF parentLayer = NoLayer
                      THEN [error |-> TRUE, layer |-> NoLayer]
                      ELSE [error |-> FALSE, layer |-> parentLayer]
              IN  With(Artboard_getLayerById(ab, layer.parentLayerId).result, Found)

\* layer.getParentLayers(): [error, layers], the nearest parent first
RECURSIVE Layer_getParentLayers(_, _)
Layer_getParentLayers(layer, ab) ==
    LET Above(parent) ==
            IF parent.error
            THEN [error |-> TRUE, layers |-> <<>>]
            ELSE IF parent.layer = NoLayer
                 THEN [error |-> FALSE, layers |-> <<>>]
                 ELSE LET Prepended(rest) ==
                              [error |-> rest.error,
                               layers |-> IF rest.error THEN <<>>
                                          ELSE <<parent.layer>> \o rest.layers]
                      IN  With(Layer_getParentLayers(parent.layer, ab), Prepended)
    IN  With(Layer_getParentLayer(layer, ab), Above)

\* A getParentLayerIds() that lists the nearest parent only.
Layer_getParentLayerIds_nearestOnly(layer, ab) ==
    LET Above(parent) ==
            IF parent.error
            THEN [error |-> TRUE, ids |-> <<>>]
            ELSE IF parent.layer = NoLayer
                 THEN [error |-> FALSE, ids |-> <<>>]
                 ELSE [error |-> FALSE, ids |-> <<Layer_id(parent.layer)>>]
    IN  With(Layer_getParentLayer(layer, ab), Above)

\* layer.getParentLayerIds(): [error, ids]
RECURSIVE Layer_getParentLayerIds(_, _)
Layer_getParentLayerIds(layer, ab) ==
    LET Above(parent) ==
            IF parent.error
            THEN [error |-> TRUE, ids |-> <<>>]
            ELSE IF parent.layer = NoLayer
                 THEN [error |-> FALSE, ids |-> <<>>]
                 ELSE LET Prepended(rest) ==
                              [error |-> rest.error,
                               ids |-> IF rest.error THEN <<>>
                                       ELSE <<Layer_id(parent.layer)>> \o rest.ids]
                      IN  With(Layer_getParentLayerIds(parent.layer, ab), Prepended)
    IN  With(Layer_getParentLayer(layer, ab), Above)

\* The artboard after a layer of it looked up its parent through
\* artboard.getLayerById, which fills the memoized getFlattenedLayers().
AfterParentLookup(layer, ab) ==
    IF Truthy(layer.parentLayerId) /\ layer.artboard # Null
    THEN Artboard_getFlattenedLayers(ab, <<>>).ab
    ELSE ab

\* Layer content masked by the layer maskedBy.
MaskedLayer(id, maskedBy) == [id |-> id, layers |-> <<>>, maskedBy |-> maskedBy]

\* layer.getMaskLayerId(): this.octopus['maskedBy'] || null
Layer_getMaskLayerId(layer) ==
    IF "maskedBy" \in DOMAIN layer.octopus
    THEN OrElse(layer.octopus.maskedBy, Null)
    ELSE Null

\* Mutant of Layer_getMaskLayer: a mask layer that is not found is no mask
\* layer.
Layer_getMaskLayer_missingIsNull(layer, ab) ==
    IF ~Truthy(Layer_getMaskLayerId(layer))
    THEN [error |-> FALSE, layer |-> NoLayer]
    ELSE IF layer.artboard = Null
         THEN [error |-> TRUE, layer |-> NoLayer]
         ELSE [error |-> FALSE,
               layer |-> Artboard_getLayerById(ab, Layer_getMaskLayerId(layer)).result]

\* layer.getMaskLayer(): [error, layer]
Layer_getMaskLayer(layer, ab) ==
    LET maskLayerId == Layer_getMaskLayerId(layer)
    IN  IF ~Truthy(maskLayerId)
        THEN [error |-> FALSE, layer |-> NoLayer]
        ELSE IF layer.artboard = Null
             THEN [error |-> TRUE, layer |-> NoLayer]
             ELSE LET Found(maskLayer) ==
                          IF maskLayer = NoLayer
                          THEN [error |-> TRUE, layer |-> NoLayer]
                          ELSE [error |-> FALSE, layer |-> maskLayer]
                  IN  With(Artboard_getLayerById(ab, maskLayerId).result, Found)

\* The artboard after a layer of it looked up the layer of the given id
\* through artboard.getLayerById, which fills the memoized
\* getFlattenedLayers().
AfterLayerLookup(layer, layerId, ab) ==
    IF Truthy(layerId) /\ layer.artboard # Null
    THEN Artboard_getFlattenedLayers(ab, <<>>).ab
    ELSE ab

\* Mutant of Design_getArtboardByComponentId: the first component artboard of
\* the design, whatever its component id.
Design_getArtboardByComponentId_anyComponent(list, componentId) ==
    LET found == { i \in 1..Len(list) : Artboard_isComponent(list[i]) }
    IN  IF found = {}
        THEN NoArtboard
        ELSE Ref(list[CHOOSE i \in found : \A j \in found : i <= j])

\* Design.getArtboardByComponentId(componentId): the first artboard of the
\* design, in insertion order, whose component id is componentId.
Design_getArtboardByComponentId(list, componentId) ==
    LET found == { i \in 1..Len(list) : Artboard_componentId(list[i]) = componentId }
    IN  IF found = {}
        THEN NoArtboard
        ELSE Ref(list[CHOOSE i \in found : \A j \in found : i <= j])

\* Mutant of Page_getArtboardByComponentId: the artboard the design finds is
\* returned whatever its page.
Page_getArtboardByComponentId_anyPage(list, pageId, componentId) ==
    Design_getArtboardByComponentId(list, componentId)

\* page.getArtboardByComponentId(componentId)
Page_getArtboardByComponentId(list, pageId, componentId) ==
    LET Scoped(artboard) ==
            IF artboard = NoArtboard
            THEN NoArtboard
            ELSE IF Artboard_pageId(list[IndexOf(list, artboard.id)]) # pageId
                 THEN NoArtboard
                 ELSE artboard
    IN  With(Design_getArtboardByComponentId(list, componentId), Scoped)

\* A selector function: (artboard) => ids.includes(artboard.id)
FunctionSelector(ids) == [kind |-> "function", id |-> Null, names |-> {}, ids |-> ids]

\* typeof selector === 'function' ? selector(artboard) : matchArtboard(selector, artboard)
SelectorMatches(selector, ab) ==
    IF selector.kind = "function"
    THEN Artboard_id(ab) \in selector.ids
    ELSE MatchArtboard(selector, ab)

\* The artboard of the list a reference stands for.
Referenced(list, ref) == list[CHOOSE i \in 1..Len(list) : list[i].uid = ref.uid]

\* page.findArtboards(selector): a selector of the single key id is answered
\* by getArtboardById, any other by filtering getArtboards().
Page_findArtboards(list, pageId, selector) ==
    IF selector.kind = "id"
    THEN (IF Page_getArtboardById(list, pageId, selector.id) = NoArtboard
          THEN <<>>
          ELSE <<Page_getArtboardById(list, pageId, selector.id)>>)
    ELSE LET Matching(ref) == SelectorMatches(selector, Referenced(list, ref))
         IN  SelectSeq(Page_getArtboards(list, pageId).items, Matching)

\* page.findArtboard(selector): the same shortcut, else the first artboard of
\* getArtboards() that matches.
Page_findArtboard(list, pageId, selector) ==
    IF selector.kind = "id"
    THEN Page_getArtboardById(list, pageId, selector.id)
    ELSE LET Matching(ref) == SelectorMatches(selector, Referenced(list, ref))
             found == SelectSeq(Page_getArtboards(list, pageId).items, Matching)
         IN  IF found = <<>> THEN NoArtboard ELSE found[1]

\* Layer content of a component instance: a layer with an artboard-id
\* reference (documentId), a component-id reference (symbolID), or both.
InstanceLayer(id, refs) == [id |-> id, layers |-> <<>>] @@ refs

\* 'documentId' in this.octopus ? this.octopus['documentId'] : null
Layer_componentArtboardId(layer) ==
    IF "documentId" \in DOMAIN layer.octopus THEN layer.octopus.documentId ELSE Null

\* this.octopus['symbolID']
Layer_symbolID(layer) ==
    IF "symbolID" \in DOMAIN layer.octopus THEN layer.octopus.symbolID ELSE Undefined

\* Mutant of Layer_getComponentArtboard: a layer without an artboard and an
\* artboard without a design yield null.
Layer_getComponentArtboard_detachedIsNull(layer, ab, list) ==
    LET componentArtboardId == Layer_componentArtboardId(layer)
        componentId == Layer_symbolID(layer)
    IN  IF ~Truthy(componentArtboardId) /\ ~Truthy(componentId)
        THEN [error |-> FALSE, artboard |-> NoArtboard]
        ELSE IF layer.artboard = Null \/ ~ab.attached
        THEN [error |-> FALSE, artboard |-> NoArtboard]
        ELSE IF Truthy(componentArtboardId)
        THEN [error |-> FALSE, artboard |-> Design_getArtboardById(list, componentArtboardId)]
        ELSE [error |-> FALSE,
              artboard |-> Design_getArtboardByComponentId(list, componentId)]

\* layer.getComponentArtboard(): [error, artboard].  ab is the layer's
\* artboard, read when the layer has one, and list holds the artboards of the
\* design of ab, read when ab has one.
Layer_getComponentArtboard(layer, ab, list) ==
    LET componentArtboardId == Layer_componentArtboardId(layer)
        componentId == Layer_symbolID(layer)
    IN  IF ~Truthy(componentArtboardId) /\ ~Truthy(componentId)
        THEN [error |-> FALSE, artboard |-> NoArtboard]
        ELSE IF layer.artboard = Null
        THEN [error |-> TRUE, artboard |-> NoArtboard]
        ELSE IF ~ab.attached
        THEN [error |-> TRUE, artboard |-> NoArtboard]
        ELSE IF Truthy(componentArtboardId)
        THEN [error |-> FALSE, artboard |-> Design_getArtboardById(list, componentArtboardId)]
        ELSE [error |-> FALSE,
              artboard |-> Design_getArtboardByComponentId(list, componentId)]

\* Layer content with bitmap assets: the names of the bitmap assets the layer
\* uses and of its pre-rendered ones.
BitmapLayer(id, bitmaps, prerendered, nested) ==
    [id |-> id, layers |-> nested, bitmaps |-> bitmaps, prerendered |-> prerendered]

\* {depth: d, includePrerendered: p} with the given own keys.
AssetOptions(ref, keys, d, p) ==
    JsObject(ref, keys, [depth |-> d, includePrerendered |-> p])

\* The options object of an options list; the default is {}.
OptionsOf(args) ==
    IF args # <<>> /\ args[1].kind = "object"
    THEN args[1]
    ELSE AssetOptions(0, {}, 0, TRUE)

\* options.includePrerendered !== false
IncludePrerendered(options) ==
    ~("includePrerendered" \in options.keys /\ options.vals.includePrerendered = FALSE)

\* layer._createBitmapAssetDescriptors({includePrerendered}), which is
\* getLayerBitmapAssets(layer, params): one descriptor [name, layerId] for
\* every asset use of the layer.
Layer_createBitmapAssetDescriptors(layer, includePrerendered) ==
    LET own == IF "bitmaps" \in DOMAIN layer.octopus THEN layer.octopus.bitmaps ELSE <<>>
        pre == IF includePrerendered /\ "prerendered" \in DOMAIN layer.octopus
               THEN layer.octopus.prerendered
               ELSE <<>>
    IN  [i \in 1..Len(own \o pre) |->
            [name |-> (own \o pre)[i], layerId |-> Layer_id(layer)]]

\* The layer ids of a followed by those of b that a does not have.
MergeLayerIds(a, b) ==
    LET Fresh(x) == \A i \in 1..Len(a) : a[i] # x
    IN  a \o SelectSeq(b, Fresh)

\* keepUniqueBitmapAssetDescriptors(descs): one descriptor per asset name, in
\* the order of the first uses, with the layer ids of all the uses.
RECURSIVE KeepUniqueInto(_, _)
KeepUniqueInto(descs, unique) ==
    IF descs = <<>>
    THEN unique
    ELSE LET found == { i \in 1..Len(unique) : unique[i].name = descs[1].name }
         IN  KeepUniqueInto(Tail(descs),
                IF found = {}
                THEN Append(unique, descs[1])
                ELSE [unique EXCEPT ![CHOOSE i \in found : TRUE].layerIds =
                                        MergeLayerIds(@, descs[1].layerIds)])

KeepUniqueBitmapAssetDescriptors(descs) == KeepUniqueInto(descs, <<>>)

\* Mutant of KeepUniqueBitmapAssetDescriptors, used by the mutant below: the
\* descriptors are handed back as they come.
KeepAllBitmapAssetDescriptors(descs) == descs

\* layer.getBitmapAssets(options); args is the list of the options handed
\* over.  NestedBitmapAssets is the flatMap over the directly nested layers.
RECURSIVE Layer_getBitmapAssets(_, _)
RECURSIVE NestedBitmapAssets(_, _)
NestedBitmapAssets(nestedLayers, args) ==
    IF nestedLayers = <<>>
    THEN <<>>
    ELSE Layer_getBitmapAssets(nestedLayers[1], args)
         \o NestedBitmapAssets(Tail(nestedLayers), args)

\* Mutant of Layer_getBitmapAssets: the descriptors of the layer and of its
\* nested layers are concatenated.
Layer_getBitmapAssets_concatenated(layer, args) ==
    LET options == OptionsOf(args)
        own == Layer_createBitmapAssetDescriptors(layer, IncludePrerendered(options))
        layerBitmapAssetDescs ==
            [i \in 1..Len(own) |-> [name |-> own[i].name, layerIds |-> <<own[i].layerId>>]]
        depth == OptionsDepth(<<options>>)
        nestedLayerBitmapAssetDescs ==
            IF depth = 1
            THEN <<>>
            ELSE NestedBitmapAssets(
                     Layer_getNestedLayers(layer, <<DepthOptions(0, 1)>>),
                     <<[options EXCEPT !.keys = @ \cup {"depth"},
                                       !.vals.depth = Dec(depth)]>>)
    IN  KeepAllBitmapAssetDescriptors(layerBitmapAssetDescs \o nestedLayerBitmapAssetDescs)

Layer_getBitmapAssets(layer, args) ==
    LET options == OptionsOf(args)
        own == Layer_createBitmapAssetDescriptors(layer, IncludePrerendered(options))
        layerBitmapAssetDescs ==
            [i \in 1..Len(own) |-> [name |-> own[i].name, layerIds |-> <<own[i].layerId>>]]
        depth == OptionsDepth(<<options>>)
        nestedLayerBitmapAssetDescs ==
            IF depth = 1
            THEN <<>>
            ELSE NestedBitmapAssets(
                     Layer_getNestedLayers(layer, <<DepthOptions(0, 1)>>),
                     <<[options EXCEPT !.keys = @ \cup {"depth"},
                                       !.vals.depth = Dec(depth)]>>)
    IN  KeepUniqueBitmapAssetDescriptors(layerBitmapAssetDescs \o nestedLayerBitmapAssetDescs)

\* Layer content of a text layer: the names of the fonts its text uses.
TextLayer(id, fonts) == [id |-> id, layers |-> <<>>, fonts |-> fonts]

\* layer._createFontDescriptors(): one descriptor [name, layerId] for every
\* font of the layer's text.
Layer_createFontDescriptors(layer) ==
    LET fonts == IF "fonts" \in DOMAIN layer.octopus THEN layer.octopus.fonts ELSE <<>>
    IN  [i \in 1..Len(fonts) |-> [name |-> fonts[i], layerId |-> Layer_id(layer)]]

\* keepUniqueFontDescriptors(descs)
KeepUniqueFontDescriptors(descs) == KeepUniqueInto(descs, <<>>)

\* layer.getFonts(options); NestedFonts is the flatMap over the directly
\* nested layers.
RECURSIVE Layer_getFonts(_, _)
RECURSIVE NestedFonts(_, _)
NestedFonts(nestedLayers, args) ==
    IF nestedLayers = <<>>
    THEN <<>>
    ELSE Layer_getFonts(nestedLayers[1], args) \o NestedFonts(Tail(nestedLayers), args)

Layer_getFonts(layer, args) ==
    LET options == OptionsOf(args)
        own == Layer_createFontDescriptors(layer)
        layerFontDescs ==
            [i \in 1..Len(own) |-> [name |-> own[i].name, layerIds |-> <<own[i].layerId>>]]
        depth == OptionsDepth(<<options>>)
        nestedLayerFontDescs ==
            IF depth = 1
            THEN <<>>
            ELSE NestedFonts(
                     Layer_getNestedLayers(layer, <<DepthOptions(0, 1)>>),
                     <<[options EXCEPT !.keys = @ \cup {"depth"},
                                       !.vals.depth = Dec(depth)]>>)
    IN  KeepUniqueFontDescriptors(layerFontDescs \o nestedLayerFontDescs)

\* collection.getBitmapAssets(options) and collection.getFonts(options): the
\* deduplicated usage of the layers of the collection.
RECURSIVE LayerCollection_usage(_, _, _)
LayerCollection_usage(layers, args, kind) ==
    IF layers = <<>>
    THEN <<>>
    ELSE (IF kind = "bitmaps"
          THEN Layer_getBitmapAssets(layers[1], args)
          ELSE Layer_getFonts(layers[1], args))
         \o LayerCollection_usage(Tail(layers), args, kind)

LayerCollection_getBitmapAssets(layers, args) ==
    KeepUniqueBitmapAssetDescriptors(LayerCollection_usage(layers, args, "bitmaps"))

LayerCollection_getFonts(layers, args) ==
    KeepUniqueFontDescriptors(LayerCollection_usage(layers, args, "fonts"))

\* artboard.findLayers(selector) and artboard.findLayer(selector), read off
\* the flattened layers.
Artboard_findLayers(ab, selector) ==
    LayerCollection_findLayers(ComputeFlattenedLayers(ab, <<>>), selector,
                               <<DepthOptions(0, 1)>>)

Artboard_findLayer(ab, selector) ==
    LayerCollection_findLayer(ComputeFlattenedLayers(ab, <<>>), selector,
                              <<DepthOptions(0, 1)>>)

\* artboard.getBitmapAssets(options) and artboard.getFonts(options)
Artboard_getBitmapAssets(ab, args) ==
    LET options == OptionsOf(args)
        depth == OptionsDepth(<<options>>)
    IN  LayerCollection_getBitmapAssets(
            ComputeFlattenedLayers(ab, <<DepthOptions(0, depth)>>),
            <<[options EXCEPT !.keys = @ \cup {"depth"}, !.vals.depth = 1]>>)

Artboard_getFonts(ab, args) ==
    LET depth == OptionsDepth(<<OptionsOf(args)>>)
    IN  LayerCollection_getFonts(
            ComputeFlattenedLayers(ab, <<DepthOptions(0, depth)>>),
            <<DepthOptions(0, 1)>>)

\* The lookups and aggregates of the Design: each asks the artboards in
\* insertion order and puts their answers together.  A usage descriptor of the
\* design names the artboard its layer ids belong to.
RECURSIVE Design_getFlattenedLayers(_, _)
Design_getFlattenedLayers(list, args) ==
    IF list = <<>>
    THEN <<>>
    ELSE ComputeFlattenedLayers(list[1], args)
         \o Design_getFlattenedLayers(Tail(list), args)

RECURSIVE Design_findLayers(_, _)
Design_findLayers(list, selector) ==
    IF list = <<>>
    THEN <<>>
    ELSE Artboard_findLayers(list[1], selector) \o Design_findLayers(Tail(list), selector)

\* Mutant of Design_findLayer: the first layer of the design when none matches.
Design_findLayer_fallsBack(list, selector) ==
    LET found == Design_findLayers(list, selector)
        all == Design_getFlattenedLayers(list, <<>>)
    IN  IF found # <<>> THEN found[1] ELSE IF all # <<>> THEN all[1] ELSE NoLayer

Design_findLayer(list, selector) ==
    LET found == Design_findLayers(list, selector)
    IN  IF found = <<>> THEN NoLayer ELSE found[1]

Design_findLayersById(list, layerId) == Design_findLayers(list, LayerSelector({layerId}))
Design_findLayerById(list, layerId) == Design_findLayer(list, LayerSelector({layerId}))

RECURSIVE Design_usage(_, _, _)
Design_usage(list, args, kind) ==
    IF list = <<>>
    THEN <<>>
    ELSE LET descs == IF kind = "bitmaps"
                      THEN Artboard_getBitmapAssets(list[1], args)
                      ELSE Artboard_getFonts(list[1], args)
         IN  [i \in 1..Len(descs) |->
                 [name |-> descs[i].name,
                  layerIds |-> <<[artboardId |-> Artboard_id(list[1]),
                                  layerIds |-> descs[i].layerIds]>>]]
             \o Design_usage(Tail(list), args, kind)

Design_getBitmapAssets(list, args) ==
    KeepUniqueBitmapAssetDescriptors(Design_usage(list, args, "bitmaps"))

Design_getFonts(list, args) ==
    KeepUniqueFontDescriptors(Design_usage(list, args, "fonts"))

(***************************************************************************)
(* Sdk (sdk.ts) and createSdk (index.ts)                                   *)
(*                                                                         *)
(* An Sdk is a record of its collaborators (TRUE when configured), its     *)
(* _destroyed flag and its _renderingEngine slot.  A rendering engine is   *)
(* named after the caller whose call created it.  The asynchronous methods *)
(* are cut at their awaits: a call in flight is [op, pc, error, awaited],  *)
(* a destroy() in flight is [pc, awaited].                                 *)
(***************************************************************************)
JsTrue == "true"
JsFalse == "false"

DestroyedMessage == "The SDK has been destroyed."
GuardMessage == "The local cache has to be enabled when using the rendering engine."
TokenMessage == "Open Design API access token not provided"
ApiMessage == "Open Design API is not configured."
FileManagerMessage == "Design file manager is not configured."
LocalDesignManagerMessage == "Local design manager is not configured."
CollaboratorFailure == "collaborator failure"

\* The callers of the operations, one call each, and the callers of destroy():
\* two users, and the error handler of the engine a caller's call created.
Callers == {"c1", "c2"}
DestroyCallers == {"d1", "d2"}
Destroyers == DestroyCallers \cup Callers

\* The collaborators destroy() destroys.
Collaborators ==
    {"openDesignApi", "systemFontManager", "fileManager", "localDesignManager",
     "svgExporter"}

SdkOperations ==
    {"openOctopusFile", "createOctopusFile", "importDesignFile", "importDesignLink",
     "importFigmaDesign", "convertFigmaDesign", "fetchDesignList", "fetchDesignById"}

NoEngine == "null"
IdleOperation == [op |-> Null, pc |-> "idle", error |-> Null, awaited |-> "null"]
IdleDestroy == [pc |-> "idle", awaited |-> NoEngine]

\* new Sdk(): nothing configured, not destroyed, no rendering engine.
NewSdk ==
    [created |-> TRUE, error |-> Null,
     openDesignApi |-> FALSE, fileManager |-> FALSE, localDesignManager |-> FALSE,
     localDesignCache |-> FALSE, renderingEngineFactory |-> FALSE,
     systemFontManager |-> FALSE, svgExporter |-> FALSE,
     destroyed |-> FALSE,
     renderingEngine |-> NoEngine,
     engines |-> [c \in Callers |-> "none"],
     destroyCalls |-> [x \in Collaborators |-> 0],
     invoked |-> {},
     calls |-> [c \in Callers |-> IdleOperation],
     destroys |-> [d \in Destroyers |-> IdleDestroy]]

\* The Sdk of the runs that have none.
IdleSdk == [NewSdk EXCEPT !.created = FALSE]

\* createSdk(params); params is [token, cached, rendering, systemFonts,
\* svgExport], an option left out is Undefined.  A createSdk that throws
\* leaves no Sdk: created is FALSE and error is the message.
CreateSdk(params) ==
    IF params.rendering = JsTrue /\ params.cached # JsTrue
    THEN [IdleSdk EXCEPT !.error = GuardMessage]
    ELSE IF ~Truthy(params.token)
    THEN [IdleSdk EXCEPT !.error = TokenMessage]
    ELSE [NewSdk EXCEPT
             !.fileManager = TRUE,
             !.localDesignManager = TRUE,
             !.openDesignApi = TRUE,
             !.systemFontManager = (params.systemFonts # JsFalse),
             !.localDesignCache = (params.cached # JsFalse),
             !.renderingEngineFactory = (params.rendering # JsFalse),
             !.svgExporter = (params.svgExport # JsFalse)]

Sdk_isDestroyed(s) == s.destroyed

\* The collaborator an operation needs and invokes first, and the message of
\* the error it raises without it.
MissingCollaborator(s, op) ==
    IF op \in {"openOctopusFile", "createOctopusFile"}
    THEN IF s.localDesignManager THEN Null ELSE LocalDesignManagerMessage
    ELSE IF ~s.openDesignApi
    THEN ApiMessage
    ELSE IF op = "importDesignFile" /\ ~s.fileManager
    THEN FileManagerMessage
    ELSE Null

\* The synchronous part of an operation called by c: the destroyed check, the
\* collaborator checks, and the first call of a collaborator, which the
\* operation then awaits.
Sdk_callOperation(s, c, op) ==
    IF Sdk_isDestroyed(s)
    THEN [s EXCEPT !.calls[c] = [IdleOperation EXCEPT !.op = op, !.pc = "rejected",
                                                      !.error = DestroyedMessage]]
    ELSE IF MissingCollaborator(s, op) # Null
    THEN [s EXCEPT !.calls[c] = [IdleOperation EXCEPT !.op = op, !.pc = "rejected",
                                                      !.error = MissingCollaborator(s, op)]]
    ELSE [s EXCEPT !.calls[c] = [IdleOperation EXCEPT !.op = op,
                                                      !.pc = "awaitCollaborators"],
                   !.invoked = @ \cup {c}]

\* A _getRenderingEngine() that asks the factory whatever the slot holds.
Sdk_getRenderingEngine_eager(s, c) ==
    IF ~s.renderingEngineFactory
    THEN [sdk |-> s, engine |-> NoEngine]
    ELSE [sdk |-> [s EXCEPT !.renderingEngine = c, !.engines[c] = "starting"],
          engine |-> c]

\* _getRenderingEngine() in the call of c: the engine in the slot, or a new
\* one from the factory, put into the slot, or no engine without a factory.
Sdk_getRenderingEngine(s, c) ==
    IF s.renderingEngine # NoEngine
    THEN [sdk |-> s, engine |-> s.renderingEngine]
    ELSE IF ~s.renderingEngineFactory
    THEN [sdk |-> s, engine |-> NoEngine]
    ELSE [sdk |-> [s EXCEPT !.renderingEngine = c, !.engines[c] = "starting"],
          engine |-> c]

\* The operation reaches _getRenderingEngine(): the local operations after the
\* local design manager answered, the API operations in _createApiDesignFacade
\* when a local design manager is configured.  fetchDesignList is done when
\* the API answered.
ReachesRenderingEngine(s, op) ==
    IF op \in {"openOctopusFile", "createOctopusFile"}
    THEN TRUE
    ELSE op # "fetchDesignList" /\ s.localDesignManager

\* The call of c goes on after its collaborators answered.
Sdk_resumeOperation(s, c) ==
    IF ~ReachesRenderingEngine(s, s.calls[c].op)
    THEN [s EXCEPT !.calls[c].pc = "done"]
    ELSE LET got == Sdk_getRenderingEngine(s, c)
         IN  [got.sdk EXCEPT !.calls[c].pc = "awaitRenderingEngine",
                             !.calls[c].awaited = got.engine]

\* Mutant of Sdk_destroy: destroy() of a destroyed Sdk destroys again.
Sdk_destroy_repeats(s, d) ==
    LET Configured(x) ==
            CASE x = "openDesignApi" -> s.openDesignApi
              [] x = "systemFontManager" -> s.systemFontManager
              [] x = "fileManager" -> s.fileManager
              [] x = "localDesignManager" -> s.localDesignManager
              [] x = "svgExporter" -> s.svgExporter
    IN  [s EXCEPT !.destroyed = TRUE,
                  !.destroyCalls = [x \in Collaborators |->
                                      IF Configured(x) THEN @[x] + 1 ELSE @[x]],
                  !.destroys[d] = [pc |-> "awaitRenderingEngine",
                                   awaited |-> s.renderingEngine]]

\* destroy() called by d, up to its await of this._renderingEngine.
Sdk_destroy(s, d) ==
    LET Configured(x) ==
            CASE x = "openDesignApi" -> s.openDesignApi
              [] x = "systemFontManager" -> s.systemFontManager
              [] x = "fileManager" -> s.fileManager
              [] x = "localDesignManager" -> s.localDesignManager
              [] x = "svgExporter" -> s.svgExporter
    IN  IF s.destroyed
        THEN [s EXCEPT !.destroys[d] = [pc |-> "done", awaited |-> NoEngine]]
        ELSE [s EXCEPT !.destroyed = TRUE,
                       !.destroyCalls = [x \in Collaborators |->
                                           IF Configured(x) THEN @[x] + 1 ELSE @[x]],
                       !.destroys[d] = [pc |-> "awaitRenderingEngine",
                                        awaited |-> s.renderingEngine]]

\* What a settled promise of a rendering engine holds: the engine, or null
\* when there is none or its factory failed.
EngineValue(s, e) ==
    IF e = NoEngine THEN NoEngine ELSE IF s.engines[e] = "failed" THEN NoEngine ELSE e

EngineSettled(s, e) == IF e = NoEngine THEN TRUE ELSE s.engines[e] # "starting"

\* destroy() of d after its await of this._renderingEngine: a rendering engine
\* that is not destroyed is taken out of the slot and destroyed.
Sdk_destroyRenderingEngine(s, d) ==
    LET renderingEngine == EngineValue(s, s.destroys[d].awaited)
    IN  IF renderingEngine # NoEngine /\ s.engines[renderingEngine] # "destroyed"
        THEN [s EXCEPT !.renderingEngine = NoEngine,
                       !.engines[renderingEngine] = "destroyed",
                       !.destroys[d].pc = "awaitEngineDestroy"]
        ELSE [s EXCEPT !.destroys[d].pc = "done"]

(***************************************************************************)
(* LayerCollectionFacade (layer-collection-facade.ts)                      *)
(*                                                                         *)
(* A layer entity of the underlying collection is [id, artboardId], with   *)
(* artboardId Null for a layer without an owning artboard.  The design     *)
(* facade is given by the <<artboardId, layerId>> pairs it resolves to a   *)
(* layer facade; a layer facade is [id, artboardId].  The facade is        *)
(* [layerCollection, resolved, layers], layers being the cache of the      *)
(* memoized getLayers().                                                   *)
(***************************************************************************)
\* The cache of the memoized getLayers() before its first call; afterwards it
\* holds the one result.
NoLayers == <<>>

\* The null a layer entity resolves to when there is no layer facade for it.
NoLayerFacade == [id |-> Null, artboardId |-> Null]

RenderMessage == "The number of artboards from which to render layers must be exactly 1"
ExportMessage == "The number of artboards from which to export layers must be exactly 1"

LayerEntity(id, artboardId) == [id |-> id, artboardId |-> artboardId]

\* new LayerCollectionFacade(layerCollection, {designFacade})
NewLayerCollectionFacade(layerCollection, resolved) ==
    [layerCollection |-> layerCollection, resolved |-> resolved, layers |-> NoLayers]

\* The facade of the runs that have no layer collection facade.
IdleFacade == NewLayerCollectionFacade(<<>>, {})

\* designFacade.getArtboardLayerFacade(artboardId, layerId): the layer facade,
\* or null when the design facade has no such artboard or layer.
DesignFacade_getArtboardLayerFacade(resolved, artboardId, layerId) ==
    IF <<artboardId, layerId>> \in resolved
    THEN [id |-> layerId, artboardId |-> artboardId]
    ELSE NoLayerFacade

\* facade._resolveArtboardLayer(layerEntity)
LayerCollectionFacade_resolveArtboardLayer(f, layerEntity) ==
    IF ~Truthy(layerEntity.artboardId)
    THEN NoLayerFacade
    ELSE DesignFacade_getArtboardLayerFacade(f.resolved, layerEntity.artboardId,
                                             layerEntity.id)

\* Mutant of LayerCollectionFacade_length: the layers with an owning artboard.
LayerCollectionFacade_length_owned(f) ==
    LET Owned(layerEntity) == Truthy(layerEntity.artboardId)
    IN  Len(SelectSeq(f.layerCollection, Owned))

\* facade.length
LayerCollectionFacade_length(f) == Len(f.layerCollection)

\* The function getLayers() memoizes: map(_resolveArtboardLayer).filter(Boolean)
LayerCollectionFacade_computeLayers(f) ==
    LET mapped == [ i \in 1..Len(f.layerCollection) |->
                      LayerCollectionFacade_resolveArtboardLayer(f, f.layerCollection[i]) ]
        Resolved(layer) == layer # NoLayerFacade
    IN  SelectSeq(mapped, Resolved)

\* facade.getLayers(): [result, facade]; the function takes no argument, so
\* its first result is returned ever after.
LayerCollectionFacade_getLayers(f) ==
    IF f.layers # NoLayers
    THEN [result |-> f.layers[1], facade |-> f]
    ELSE [result |-> LayerCollectionFacade_computeLayers(f),
          facade |-> [f EXCEPT !.layers = <<LayerCollectionFacade_computeLayers(f)>>]]

\* [...new Set(list)]: the distinct items, in the order of their first
\* occurrence.
RECURSIVE Distinct(_)
Distinct(list) ==
    IF list = <<>> THEN <<>>
    ELSE LET NotFirst(x) == x # Head(list)
         IN  <<Head(list)>> \o Distinct(SelectSeq(Tail(list), NotFirst))

\* The layer ids of the layer facades of the collection.
FacadeLayerIds(layers) == [ i \in 1..Len(layers) |-> layers[i].id ]

\* Mutant of LayerCollectionFacade_renderTarget: the artboard is looked for
\* among the artboard ids of the layers.
LayerCollectionFacade_renderTarget_byArtboard(f) ==
    LET layers == LayerCollectionFacade_getLayers(f).result
        artboardIds == Distinct([ i \in 1..Len(layers) |-> layers[i].artboardId ])
    IN  IF Len(artboardIds) = 1 /\ Truthy(artboardIds[1])
        THEN [error |-> FALSE, artboardId |-> artboardIds[1],
              layerIds |-> FacadeLayerIds(layers)]
        ELSE [error |-> TRUE, artboardId |-> Null, layerIds |-> <<>>]

\* The part renderToFile, exportToSvgCode and exportToSvgFile share: the
\* layer ids, the artboard id, and the rejection when there is no artboard
\* id: [error, artboardId, layerIds].
LayerCollectionFacade_renderTarget(f) ==
    LET layers == LayerCollectionFacade_getLayers(f).result
        layerIds == FacadeLayerIds(layers)
        artboardIds == Distinct([ i \in 1..Len(layers) |-> layers[i].id ])
        artboardId == IF Len(artboardIds) = 1 THEN artboardIds[1] ELSE Null
    IN  IF ~Truthy(artboardId)
        THEN [error |-> TRUE, artboardId |-> Null, layerIds |-> <<>>]
        ELSE [error |-> FALSE, artboardId |-> artboardId, layerIds |-> layerIds]

(***************************************************************************)
(* RenderingArtboard (rendering-artboard.ts)                               *)
(*                                                                         *)
(* A rendering artboard is [symbolId, ready, pendingSymbolIds, loads]:     *)
(* loads holds, per caller, the load() call in flight.                     *)
(***************************************************************************)
\* A load() that has not been called: its position, the result of the first
\* load command, and ready and pendingSymbolIds as they were at the call.
IdleLoad ==
    [pc |-> "idle", loadOk |-> TRUE, error |-> Null,
     readyBefore |-> FALSE, pendingBefore |-> <<>>]

\* A list that may be left out is <<>> when left out and <<list>> when given.
LeftOut == <<>>
Given(list) == <<list>>

\* list || []
ListOrEmpty(option) == IF option = LeftOut THEN <<>> ELSE option[1]

\* new RenderingArtboard(id, params)
NewRenderingArtboard(params) ==
    LET pendingSymbolIds == ListOrEmpty(params.pendingSymbolIds)
    IN  [symbolId |-> OrElse(params.symbolId, Null),
         pendingSymbolIds |-> pendingSymbolIds,
         ready |-> (params.ready # JsFalse /\ Len(pendingSymbolIds) = 0),
         loads |-> [c \in Callers |-> IdleLoad]]

\* The rendering artboard of the runs that have none.
IdleRendering ==
    NewRenderingArtboard([symbolId |-> Undefined, ready |-> Undefined,
                          pendingSymbolIds |-> LeftOut])

LoadMessage == "Failed to load design artboard"
DependencyMessage == "Failed to get pending artboard dependency list"

\* load(params) called by c, up to its await of the 'load-artboard' command.
RenderingArtboard_load(r, c) ==
    [r EXCEPT !.loads[c] = [IdleLoad EXCEPT !.pc = "awaitLoad",
                                            !.readyBefore = r.ready,
                                            !.pendingBefore = r.pendingSymbolIds]]

\* The rest of load() once both load results are at hand: the error when one
\* of them is not ok, and otherwise _getPendingArtboardDependencies() up to
\* its await of the 'get-artboard-dependencies' command.
RenderingArtboard_afterLoadCommands(r, c, loadOk, symbolLoadOk) ==
    IF ~loadOk \/ ~symbolLoadOk
    THEN [r EXCEPT !.loads[c].pc = "failed", !.loads[c].error = LoadMessage]
    ELSE [r EXCEPT !.loads[c].pc = "awaitDependencies"]

\* The 'load-artboard' command of the artboard answers the load() of c: with
\* a symbol id the load() goes on to await the command of the symbol, without
\* one the symbol's result is ok.
RenderingArtboard_loadAnswers(r, c, ok) ==
    IF Truthy(r.symbolId)
    THEN [r EXCEPT !.loads[c].pc = "awaitSymbolLoad", !.loads[c].loadOk = ok]
    ELSE RenderingArtboard_afterLoadCommands(
             [r EXCEPT !.loads[c].loadOk = ok], c, ok, TRUE)

\* The 'load-artboard' command of the symbol answers the load() of c.
RenderingArtboard_symbolLoadAnswers(r, c, ok) ==
    RenderingArtboard_afterLoadCommands(r, c, r.loads[c].loadOk, ok)

\* A load() that is ready whatever the dependency list.
RenderingArtboard_dependenciesAnswer_alwaysReady(r, c, dependencyResult) ==
    IF ~dependencyResult.ok
    THEN [r EXCEPT !.loads[c].pc = "failed", !.loads[c].error = DependencyMessage]
    ELSE LET pendingSymbolIds == ListOrEmpty(dependencyResult.symbols)
         IN  [r EXCEPT !.pendingSymbolIds = pendingSymbolIds,
                       !.ready = TRUE,
                       !.loads[c].pc = "done"]

\* The 'get-artboard-dependencies' command answers the load() of c with
\* [ok, symbols]: _getPendingArtboardDependencies() throws when it is not ok
\* and returns the symbols, or [] without them, which load() stores.
RenderingArtboard_dependenciesAnswer(r, c, dependencyResult) ==
    IF ~dependencyResult.ok
    THEN [r EXCEPT !.loads[c].pc = "failed", !.loads[c].error = DependencyMessage]
    ELSE LET pendingSymbolIds == ListOrEmpty(dependencyResult.symbols)
         IN  [r EXCEPT !.pendingSymbolIds = pendingSymbolIds,
                       !.ready = (Len(pendingSymbolIds) = 0),
                       !.loads[c].pc = "done"]

(***************************************************************************)
(* State                                                                   *)
(***************************************************************************)
VARIABLES
    artboard,      \* SpecArtboard: the artboard under test
    pages,         \* the pages of the design: page id -> [name]
    artboardList,  \* Spec: the artboards of the design, in insertion order
    held,          \* Spec: artboard lists the caller obtained earlier and kept,
                   \* each with the query it came from and its items when returned
    nextUid,       \* Spec: the identity the next constructed artboard gets
    last,          \* the last call: its name, arguments, outcome and result
    hist,          \* history: the id the artboard was constructed with, the
                   \* content of the last setOctopus call, the layer-view calls
                   \* made since, and whether that call emptied a filled cache
    memo,          \* SpecMemo: a memoized accessor, the value its computation
                   \* reads, and the history of its runs since the last clear()
    sdk,           \* SpecSdk: the Sdk createSdk returned, its collaborators and
                   \* rendering engines, and the calls in flight on it
    facade,        \* SpecFacade: a layer collection facade
    renderingArtboard  \* SpecRendering: a rendering artboard and the load()
                       \* calls in flight on it

vars == <<artboard, pages, artboardList, held, nextUid, last, hist, memo, sdk, facade, renderingArtboard>>

\* The memoized accessor of the runs that do not call it: memoize(fn), unused.
IdleMemo ==
    [depth |-> 1, cache |-> <<>>, source |-> 0, ran |-> <<>>, dropped |-> {}]

\* The record of a call.  Fields a call does not use keep these values.
NoCall ==
    [op |-> "new", error |-> FALSE, id |-> Null, pageId |-> Null,
     octopus |-> NoOctopus, args |-> <<>>, returned |-> FALSE, result |-> <<>>]

(***************************************************************************)
(* SpecArtboard: one artboard, detached or attached to a design that has   *)
(* the page p1                                                             *)
(***************************************************************************)
MaxCacheEntries == 2
\* Identities of the options objects handed to getFlattenedLayers.
OptionRefs == {1}

ArtboardPages == [p \in {"p1"} |-> [name |-> "Page 1"]]

\* The design the artboard under test reads.
ArtboardDesign == IF artboard.attached THEN DesignWith(pages) ELSE NoDesign

\* Argument lists of getFlattenedLayers: none, {} and {depth: d}.
DepthInputs == {0, 1, 2, Infinity}
FlattenArgs ==
    {<<>>}
    \cup { <<EmptyOptions(r)>> : r \in OptionRefs }
    \cup { <<DepthOptions(r, d)>> : r \in OptionRefs, d \in DepthInputs }

\* Manifests handed to setManifest.
ManifestInputs ==
    { [NoManifest EXCEPT
          !.present = TRUE, !.artboard_original_id = id, !.artboard_name = name,
          !.is_symbol = Truthy(symbol), !.symbol_id = symbol,
          !.page_original_id = page, !.page_name = Null,
          !.failed = failed, !.url = Null, !.preview_url = Null] :
        id \in ArtboardIds, name \in {Null, "Def"}, symbol \in {Null} \cup ComponentIds,
        page \in {Undefined, "p2"}, failed \in BOOLEAN }

\* An argument list without the identities of its objects.
ArgsShape(args) == [i \in 1..Len(args) |-> [args[i] EXCEPT !.ref = 0]]
CallKey(op, args) == [op |-> op, args |-> ArgsShape(args)]

\* new Artboard(id, octopus, {manifest, pageId, name, design}) as the first call.
Construct(id, octopus, manifest, pageId, name, attached) ==
    /\ artboard = NewArtboard(0, id, octopus,
                      [manifest |-> manifest, pageId |-> pageId,
                       componentId |-> Undefined, name |-> name,
                       attached |-> attached])
    /\ last = [NoCall EXCEPT !.id = id, !.octopus = octopus]
    /\ hist = [constructedId |-> id, lastSet |-> NoOctopus, fetched |-> {},
               cleared |-> FALSE]
    /\ pages = ArtboardPages
    /\ artboardList = <<>>
    /\ held = <<>>
    /\ nextUid = 1
    /\ memo = IdleMemo
    /\ sdk = IdleSdk
    /\ facade = IdleFacade
    /\ renderingArtboard = IdleRendering

\* Contents of the layer-view runs and of the manifest runs.
LayerContents == { Octopus(Undefined, t) : t \in LayerTrees }
ManifestContents ==
    { Octopus(s, <<LeafLayer("l4")>>) : s \in {Undefined} \cup ComponentIds }

InitArtboard ==
    \E octopus \in {NoOctopus} \cup LayerContents :
        Construct("a", octopus, NoManifest, Undefined, Undefined, FALSE)

\* Manifests handed to the constructor: none, or a bare one of either id.
InitialManifests ==
    {NoManifest}
    \cup { m \in ManifestInputs :
              /\ m.artboard_name = Null /\ m.symbol_id = Null
              /\ m.page_original_id = Undefined /\ ~m.failed }

InitManifest ==
    \E id \in ArtboardIds, octopus \in {NoOctopus} \cup ManifestContents,
       manifest \in InitialManifests,
       pageId \in {Undefined, "p1"}, name \in {Undefined, "Abc"}, attached \in BOOLEAN :
        Construct(id, octopus, manifest, pageId, name, attached)

DesignUnchanged == UNCHANGED <<pages, artboardList, held, nextUid, memo, sdk, facade, renderingArtboard>>

ASetOctopus(nextOctopus) ==
    /\ artboard' = Artboard_setOctopus(artboard, nextOctopus, ArtboardDesign)
    /\ last' = [NoCall EXCEPT !.op = "setOctopus", !.octopus = nextOctopus]
    /\ hist' = [hist EXCEPT
                    !.lastSet = nextOctopus, !.fetched = {},
                    !.cleared = artboard.rootLayersCache # <<>>
                                \/ artboard.flattenedLayersCache # <<>>]
    /\ DesignUnchanged

AUnload ==
    /\ artboard' = Artboard_unload(artboard)
    /\ last' = [NoCall EXCEPT !.op = "unload"]
    /\ UNCHANGED hist
    /\ DesignUnchanged

AGetRootLayers ==
    LET call == Artboard_getRootLayers(artboard)
    IN  /\ artboard' = call.ab
        /\ last' = [NoCall EXCEPT !.op = "getRootLayers", !.result = call.result]
        /\ hist' = [hist EXCEPT !.fetched = @ \cup {CallKey("getRootLayers", <<>>)}]
        /\ DesignUnchanged

AGetFlattenedLayers(args) ==
    LET call == Artboard_getFlattenedLayers(artboard, args)
    IN  /\ Len(call.ab.flattenedLayersCache) <= MaxCacheEntries
        /\ artboard' = call.ab
        /\ last' = [NoCall EXCEPT !.op = "getFlattenedLayers", !.args = args,
                                  !.result = call.result]
        /\ hist' = [hist EXCEPT !.fetched = @ \cup {CallKey("getFlattenedLayers", args)}]
        /\ DesignUnchanged

ASetManifest(nextManifest) ==
    LET call == Artboard_setManifest(artboard, nextManifest, ArtboardDesign)
    IN  /\ artboard' = call.ab
        /\ last' = [NoCall EXCEPT !.op = "setManifest", !.error = call.error,
                                  !.id = nextManifest.artboard_original_id]
        /\ UNCHANGED hist
        /\ DesignUnchanged

ASetPage(nextPageId) ==
    /\ artboard' = Artboard_setPage(artboard, nextPageId, ArtboardDesign)
    /\ last' = [NoCall EXCEPT !.op = "setPage", !.pageId = nextPageId]
    /\ UNCHANGED hist
    /\ DesignUnchanged

AUnassignFromPage ==
    /\ artboard' = Artboard_unassignFromPage(artboard, ArtboardDesign)
    /\ last' = [NoCall EXCEPT !.op = "unassignFromPage"]
    /\ UNCHANGED hist
    /\ DesignUnchanged

AGetPage ==
    LET call == Artboard_getPage(artboard, ArtboardDesign)
    IN  /\ last' = [NoCall EXCEPT !.op = "getPage", !.error = call.error,
                                  !.result = IF call.page = Null THEN <<>>
                                             ELSE <<call.page>>]
        /\ UNCHANGED <<artboard, hist>>
        /\ DesignUnchanged

\* Content and layer views of one artboard.
NextArtboard ==
    \/ \E nextOctopus \in LayerContents : ASetOctopus(nextOctopus)
    \/ AUnload
    \/ AGetRootLayers
    \/ \E args \in FlattenArgs : AGetFlattenedLayers(args)

SpecArtboard == InitArtboard /\ [][NextArtboard]_vars

\* Content, manifest and page assignment of one artboard.
NextManifest ==
    \/ \E nextOctopus \in ManifestContents : ASetOctopus(nextOctopus)
    \/ AUnload
    \/ \E nextManifest \in ManifestInputs : ASetManifest(nextManifest)
    \/ \E nextPageId \in PageIds : ASetPage(nextPageId)
    \/ AUnassignFromPage
    \/ AGetPage

SpecManifest == InitManifest /\ [][NextManifest]_vars

\* artboard.isComponent()
AIsComponent ==
    /\ last' = [NoCall EXCEPT !.op = "isComponent",
                              !.result = <<Artboard_isComponent(artboard)>>]
    /\ UNCHANGED <<artboard, hist>>
    /\ DesignUnchanged

\* Content and page assignment of one artboard whose manifest is not replaced.
NextComponent ==
    \/ \E nextOctopus \in ManifestContents : ASetOctopus(nextOctopus)
    \/ AUnload
    \/ \E nextPageId \in PageIds : ASetPage(nextPageId)
    \/ AUnassignFromPage
    \/ AIsComponent

SpecComponent == InitManifest /\ [][NextComponent]_vars

(***************************************************************************)
(* Spec: a design whose artboards are added, removed and listed            *)
(***************************************************************************)
MaxAdds == 3

\* The artboard and the history of SpecArtboard, unused by the design runs.
IdleArtboard ==
    NewArtboard(0, "a", NoOctopus,
        [manifest |-> NoManifest, pageId |-> Undefined, componentId |-> Undefined,
         name |-> Undefined, attached |-> FALSE])
IdleHist == [constructedId |-> "a", lastSet |-> NoOctopus, fetched |-> {}, cleared |-> FALSE]

AddParams(pageId, name) ==
    [manifest |-> NoManifest, pageId |-> pageId, componentId |-> Undefined,
     name |-> name, attached |-> TRUE]

\* The list queries of the design.
ListQueries ==
    { [op |-> "getArtboards", pageId |-> Null],
      [op |-> "getComponentArtboards", pageId |-> Null] }
    \cup { [op |-> "getPageArtboards", pageId |-> p] : p \in PageIds }

RunListQuery(list, query) ==
    CASE query.op = "getArtboards" -> Design_getArtboards(list)
      [] query.op = "getComponentArtboards" -> Design_getComponentArtboards(list)
      [] query.op = "getPageArtboards" -> Design_getPageArtboards(list, query.pageId)

\* What a caller reads in a list it was handed, and in a list it holds.
ReadList(list) == IF list.live THEN Refs(artboardList) ELSE list.items
HeldItems(h) == ReadList(h.list)

Init ==
    /\ artboardList = <<>>
    /\ pages = NoPages
    /\ held = <<>>
    /\ nextUid = 1
    /\ last = [NoCall EXCEPT !.op = "new Design"]
    /\ artboard = IdleArtboard
    /\ hist = IdleHist
    /\ memo = IdleMemo
    /\ sdk = IdleSdk
    /\ facade = IdleFacade
    /\ renderingArtboard = IdleRendering

ArtboardUnchanged == UNCHANGED <<artboard, hist, memo, sdk, facade, renderingArtboard>>

AddArtboard(id, octopus, pageId, name) ==
    LET call == Design_addArtboard(artboardList, nextUid, id, octopus,
                                   AddParams(pageId, name))
    IN  /\ nextUid <= MaxAdds
        /\ artboardList' = call.list
        /\ nextUid' = IF call.error THEN nextUid ELSE nextUid + 1
        /\ last' = [NoCall EXCEPT !.op = "addArtboard", !.id = id,
                                  !.error = call.error]
        /\ UNCHANGED <<pages, held>>
        /\ ArtboardUnchanged

RemoveArtboard(id) ==
    LET call == Design_removeArtboard(artboardList, id)
    IN  /\ artboardList' = call.list
        /\ last' = [NoCall EXCEPT !.op = "removeArtboard", !.id = id,
                                  !.returned = call.removed,
                                  !.result = IF call.removed
                                             THEN <<Design_getArtboardById(artboardList, id)>>
                                             ELSE <<>>]
        /\ UNCHANGED <<pages, held, nextUid>>
        /\ ArtboardUnchanged

\* The caller runs a list query and keeps the list; it keeps one list, the
\* first it asked for.
HoldList(query) ==
    LET list == RunListQuery(artboardList, query)
        items == ReadList(list)
    IN  /\ held = <<>>
        /\ held' = Append(held, [query |-> query, list |-> list, returned |-> items])
        /\ last' = [NoCall EXCEPT !.op = query.op, !.pageId = query.pageId,
                                  !.result = items]
        /\ UNCHANGED <<pages, artboardList, nextUid>>
        /\ ArtboardUnchanged

Next ==
    \/ \E id \in ArtboardIds, octopus \in ManifestContents,
          pageId \in {Undefined, "p1"}, name \in {Undefined} \cup Names :
          AddArtboard(id, octopus, pageId, name)
    \/ \E id \in ArtboardIds : RemoveArtboard(id)
    \/ \E query \in ListQueries : HoldList(query)

Spec == Init /\ [][Next]_vars

(***************************************************************************)
(* SpecPages: a design with pages; artboards are assigned to pages through *)
(* the design, the artboard and the page                                   *)
(***************************************************************************)
PlainContent == Octopus(Undefined, <<LeafLayer("l4")>>)
PageNames == {Undefined, "Page 1"}

AddPage(pageId, name) ==
    /\ pageId \notin DOMAIN pages
    /\ pages' = Design_addPage(pages, pageId, name)
    /\ last' = [NoCall EXCEPT !.op = "addPage", !.pageId = pageId]
    /\ UNCHANGED <<artboardList, held, nextUid>>
    /\ ArtboardUnchanged

RemovePage(pageId) ==
    /\ pageId \in DOMAIN pages
    /\ pages' = Design_removePage(pages, pageId)
    /\ last' = [NoCall EXCEPT !.op = "removePage", !.pageId = pageId]
    /\ UNCHANGED <<artboardList, held, nextUid>>
    /\ ArtboardUnchanged

\* design.getArtboardById(id).setPage(nextPageId)
MemberSetPage(id, nextPageId) ==
    /\ HasArtboard(artboardList, id)
    /\ artboardList' = ReplaceArtboard(artboardList, id,
                           Artboard_setPage(artboardList[IndexOf(artboardList, id)],
                                            nextPageId, DesignWith(pages)))
    /\ last' = [NoCall EXCEPT !.op = "setPage", !.id = id, !.pageId = nextPageId]
    /\ UNCHANGED <<pages, held, nextUid>>
    /\ ArtboardUnchanged

\* design.getArtboardById(id).unassignFromPage()
MemberUnassignFromPage(id) ==
    /\ HasArtboard(artboardList, id)
    /\ artboardList' = ReplaceArtboard(artboardList, id,
                           Artboard_unassignFromPage(
                               artboardList[IndexOf(artboardList, id)],
                               DesignWith(pages)))
    /\ last' = [NoCall EXCEPT !.op = "unassignFromPage", !.id = id]
    /\ UNCHANGED <<pages, held, nextUid>>
    /\ ArtboardUnchanged

\* design.getPageById(pageId).addArtboard(id)
PageAddArtboard(pageId, id) ==
    LET call == Page_addArtboard(artboardList, pages, pageId, id)
    IN  /\ pageId \in DOMAIN pages
        /\ artboardList' = call.list
        /\ last' = [NoCall EXCEPT !.op = "Page.addArtboard", !.id = id,
                                  !.pageId = pageId, !.error = call.error]
        /\ UNCHANGED <<pages, held, nextUid>>
        /\ ArtboardUnchanged

\* design.getPageById(pageId).removeArtboard(id)
PageRemoveArtboard(pageId, id) ==
    LET call == Page_removeArtboard(artboardList, pageId, id)
    IN  /\ pageId \in DOMAIN pages
        /\ artboardList' = call.list
        /\ last' = [NoCall EXCEPT !.op = "Page.removeArtboard", !.id = id,
                                  !.pageId = pageId, !.returned = call.removed]
        /\ UNCHANGED <<pages, held, nextUid>>
        /\ ArtboardUnchanged

\* design.getPageById(pageId).unassignArtboard(id)
PageUnassignArtboard(pageId, id) ==
    LET call == Page_unassignArtboard(artboardList, pages, pageId, id)
    IN  /\ pageId \in DOMAIN pages
        /\ artboardList' = call.list
        /\ last' = [NoCall EXCEPT !.op = "Page.unassignArtboard", !.id = id,
                                  !.pageId = pageId, !.returned = call.unassigned]
        /\ UNCHANGED <<pages, held, nextUid>>
        /\ ArtboardUnchanged

NextPages ==
    \/ \E id \in ArtboardIds, pageId \in {Undefined} \cup PageIds :
          AddArtboard(id, PlainContent, pageId, Undefined)
    \/ \E id \in ArtboardIds : RemoveArtboard(id)
    \/ \E pageId \in PageIds, name \in PageNames : AddPage(pageId, name)
    \/ \E pageId \in PageIds : RemovePage(pageId)
    \/ \E id \in ArtboardIds, pageId \in PageIds : MemberSetPage(id, pageId)
    \/ \E id \in ArtboardIds : MemberUnassignFromPage(id)
    \/ \E pageId \in PageIds, id \in ArtboardIds : PageAddArtboard(pageId, id)
    \/ \E pageId \in PageIds, id \in ArtboardIds : PageRemoveArtboard(pageId, id)
    \/ \E pageId \in PageIds, id \in ArtboardIds : PageUnassignArtboard(pageId, id)

SpecPages == Init /\ [][NextPages]_vars

(***************************************************************************)
(* SpecMemo: one memoized accessor, memoize(fn, depth).  fn reads a value  *)
(* of its owner (source) that the owner's operations change; its result is *)
(* the argument list it ran for and the source it read.                    *)
(***************************************************************************)
MaxMemoRuns == 3
\* The successive versions of the value fn reads.
SourceValues == {0, 1}

\* Options objects handed to the accessor; each object keeps its fields.
\* Objects 1 and 2 are distinct and field-wise equal.
MemoObjects == {DepthOptions(1, 1), DepthOptions(2, 1), DepthOptions(3, 2)}
MemoArgs == {<<>>} \cup { <<o>> : o \in MemoObjects }

\* fn(...args)
MemoFn(args, source) == [args |-> args, source |-> source]

InitMemo ==
    /\ \E depth \in {1, 2} : memo = [IdleMemo EXCEPT !.depth = depth]
    /\ sdk = IdleSdk
    /\ facade = IdleFacade
    /\ renderingArtboard = IdleRendering
    /\ last = [NoCall EXCEPT !.op = "memoize"]
    /\ artboard = IdleArtboard
    /\ hist = IdleHist
    /\ pages = NoPages
    /\ artboardList = <<>>
    /\ held = <<>>
    /\ nextUid = 1

MemoOthersUnchanged == UNCHANGED <<artboard, hist, pages, artboardList, held, nextUid, sdk, facade, renderingArtboard>>

\* memoizer(...args).  The call is recorded with whether fn ran.
MemoCall(args) ==
    LET call == Memoizer(memo.cache, args, memo.depth, MemoFn(args, memo.source))
        ran == call.cache # memo.cache
    IN  /\ ran => Len(memo.ran) < MaxMemoRuns
        /\ memo' = [memo EXCEPT !.cache = call.cache,
                                !.ran = IF ran THEN Append(@, args) ELSE @]
        /\ last' = [NoCall EXCEPT !.op = "memoizer", !.args = args,
                                  !.returned = ran, !.result = <<call.result>>]
        /\ MemoOthersUnchanged

\* memoizer.clear()
MemoClearCall ==
    /\ memo' = [memo EXCEPT
                    !.cache = MemoClear(@), !.ran = <<>>,
                    !.dropped = { memo.cache[i].args : i \in 1..Len(memo.cache) }]
    /\ last' = [NoCall EXCEPT !.op = "clear"]
    /\ MemoOthersUnchanged

\* The owner changes the value fn reads to its next version.
MemoSetSource(source) ==
    /\ source > memo.source
    /\ memo' = [memo EXCEPT !.source = source]
    /\ last' = [NoCall EXCEPT !.op = "setSource"]
    /\ MemoOthersUnchanged

NextMemo ==
    \/ \E args \in MemoArgs : MemoCall(args)
    \/ MemoClearCall
    \/ \E source \in SourceValues : MemoSetSource(source)

SpecMemo == InitMemo /\ [][NextMemo]_vars

(***************************************************************************)
(* SpecSearch: layer search on the layers of one loaded artboard           *)
(***************************************************************************)
SearchTrees ==
    { <<GroupLayer("l1", <<GroupLayer("l2", <<LeafLayer("l3")>>), LeafLayer("l4")>>),
        LeafLayer("l5")>>,
      <<LeafLayer("l4"),
        GroupLayer("l1", <<LeafLayer("l2"), GroupLayer("l3", <<LeafLayer("l5")>>)>>)>> }
SearchLayerIds == {"l1", "l2", "l3", "l4", "l5"}
\* Selectors matching all layers, all but one, two deep ones, and none.
SearchSelectors ==
    { LayerSelector(ids) :
        ids \in { x \in SUBSET SearchLayerIds : Cardinality(x) >= 4 }
                \cup {{"l3", "l5"}, {}} }
\* Options lists of the searches: none and {depth: d}.
SearchOptions == {<<>>} \cup { <<DepthOptions(1, d)>> : d \in {0, 1, 2} }

InitSearch ==
    \E tree \in SearchTrees :
        Construct("a", Octopus(Undefined, tree), NoManifest, Undefined, Undefined, FALSE)

\* artboard.getLayerById(layerId).findNestedLayers(selector, options)
AFindNestedLayers(layerId, selector, args) ==
    LET lookup == Artboard_getLayerById(artboard, layerId)
    IN  /\ lookup.result # NoLayer
        /\ artboard' = lookup.ab
        /\ last' = [NoCall EXCEPT
                        !.op = "findNestedLayers", !.id = layerId,
                        !.args = <<selector>> \o args,
                        !.result = Layer_findNestedLayers(lookup.result, selector, args)]
        /\ UNCHANGED hist
        /\ DesignUnchanged

\* artboard.getLayerById(layerId).findNestedLayer(selector, options)
AFindNestedLayer(layerId, selector, args) ==
    LET lookup == Artboard_getLayerById(artboard, layerId)
        found == Layer_findNestedLayer(lookup.result, selector, args)
    IN  /\ lookup.result # NoLayer
        /\ artboard' = lookup.ab
        /\ last' = [NoCall EXCEPT
                        !.op = "findNestedLayer", !.id = layerId,
                        !.args = <<selector>> \o args,
                        !.result = IF found = NoLayer THEN <<>> ELSE <<found>>]
        /\ UNCHANGED hist
        /\ DesignUnchanged

\* artboard.getRootLayers().findLayers(selector, options)
AFindLayers(selector, args) ==
    LET roots == Artboard_getRootLayers(artboard)
    IN  /\ artboard' = roots.ab
        /\ last' = [NoCall EXCEPT
                        !.op = "findLayers", !.args = <<selector>> \o args,
                        !.result = LayerCollection_findLayers(roots.result, selector, args)]
        /\ UNCHANGED hist
        /\ DesignUnchanged

\* artboard.getRootLayers().findLayer(selector, options)
AFindLayer(selector, args) ==
    LET roots == Artboard_getRootLayers(artboard)
        found == LayerCollection_findLayer(roots.result, selector, args)
    IN  /\ artboard' = roots.ab
        /\ last' = [NoCall EXCEPT
                        !.op = "findLayer", !.args = <<selector>> \o args,
                        !.result = IF found = NoLayer THEN <<>> ELSE <<found>>]
        /\ UNCHANGED hist
        /\ DesignUnchanged

NextSearch ==
    \/ \E layerId \in SearchLayerIds, selector \in SearchSelectors, args \in SearchOptions :
          AFindNestedLayers(layerId, selector, args)
    \/ \E layerId \in SearchLayerIds, selector \in SearchSelectors, args \in SearchOptions :
          AFindNestedLayer(layerId, selector, args)
    \/ \E selector \in SearchSelectors, args \in SearchOptions : AFindLayers(selector, args)
    \/ \E selector \in SearchSelectors, args \in SearchOptions : AFindLayer(selector, args)

SpecSearch == InitSearch /\ [][NextSearch]_vars

(***************************************************************************)
(* SpecLayers: the layers of one artboard, and layers constructed without  *)
(* an artboard                                                             *)
(***************************************************************************)
\* Options lists of getNestedLayers: none, {} and {depth: d}.
NestedOptions ==
    {<<>>, <<EmptyOptions(1)>>} \cup { <<DepthOptions(1, d)>> : d \in DepthInputs }

\* artboard.getLayerById(layerId).getNestedLayers(options)
AGetNestedLayers(layerId, args) ==
    LET lookup == Artboard_getLayerById(artboard, layerId)
    IN  /\ lookup.result # NoLayer
        /\ artboard' = lookup.ab
        /\ last' = [NoCall EXCEPT
                        !.op = "getNestedLayers", !.id = layerId, !.args = args,
                        !.result = Layer_getNestedLayers(lookup.result, args)]
        /\ UNCHANGED hist
        /\ DesignUnchanged

\* Layers constructed without an artboard: new Layer(data, {parentLayerId}).
DetachedLayers ==
    { Layer(LeafLayer("l2"), parentLayerId, Null) : parentLayerId \in {Undefined, "l1"} }

\* The layers a caller can have at hand: those artboard.getFlattenedLayers()
\* returns and the detached ones.
LayersAtHand ==
    { Artboard_getFlattenedLayers(artboard, <<>>).result[i] :
        i \in 1..Len(Artboard_getFlattenedLayers(artboard, <<>>).result) }
    \cup DetachedLayers

\* The call on a layer obtained from artboard.getFlattenedLayers() fills that
\* accessor's cache.
AfterObtaining(layer) ==
    IF layer.artboard = Null
    THEN artboard
    ELSE Artboard_getFlattenedLayers(artboard, <<>>).ab

\* layer.getDepth()
AGetDepth(layer) ==
    LET call == Layer_getDepth(layer, artboard)
    IN  /\ artboard' = AfterParentLookup(layer, AfterObtaining(layer))
        /\ last' = [NoCall EXCEPT
                        !.op = "getDepth", !.id = Layer_id(layer), !.args = <<layer>>,
                        !.error = call.error,
                        !.result = IF call.error THEN <<>> ELSE <<call.depth>>]
        /\ UNCHANGED hist
        /\ DesignUnchanged

\* artboard.getLayerDepth(layerId)
AGetLayerDepth(layerId) ==
    LET call == Artboard_getLayerDepth(artboard, layerId)
    IN  /\ artboard' = Artboard_getFlattenedLayers(artboard, <<>>).ab
        /\ last' = [NoCall EXCEPT
                        !.op = "getLayerDepth", !.id = layerId, !.error = call.error,
                        !.result = IF call.error \/ call.depth = NoDepth
                                   THEN <<>> ELSE <<call.depth>>]
        /\ UNCHANGED hist
        /\ DesignUnchanged

\* layer.getParentLayer()
AGetParentLayer(layer) ==
    LET call == Layer_getParentLayer(layer, artboard)
    IN  /\ artboard' = AfterParentLookup(layer, AfterObtaining(layer))
        /\ last' = [NoCall EXCEPT
                        !.op = "getParentLayer", !.id = Layer_id(layer),
                        !.args = <<layer>>, !.error = call.error,
                        !.result = IF call.error \/ call.layer = NoLayer
                                   THEN <<>> ELSE <<call.layer>>]
        /\ UNCHANGED hist
        /\ DesignUnchanged

\* layer.getParentLayers()
AGetParentLayers(layer) ==
    LET call == Layer_getParentLayers(layer, artboard)
    IN  /\ artboard' = AfterParentLookup(layer, AfterObtaining(layer))
        /\ last' = [NoCall EXCEPT
                        !.op = "getParentLayers", !.id = Layer_id(layer),
                        !.args = <<layer>>, !.error = call.error,
                        !.result = call.layers]
        /\ UNCHANGED hist
        /\ DesignUnchanged

\* layer.getParentLayerIds()
AGetParentLayerIds(layer) ==
    LET call == Layer_getParentLayerIds(layer, artboard)
    IN  /\ artboard' = AfterParentLookup(layer, AfterObtaining(layer))
        /\ last' = [NoCall EXCEPT
                        !.op = "getParentLayerIds", !.id = Layer_id(layer),
                        !.args = <<layer>>, !.error = call.error,
                        !.result = call.ids]
        /\ UNCHANGED hist
        /\ DesignUnchanged

NextLayers ==
    \/ \E nextOctopus \in { Octopus(Undefined, t) : t \in SearchTrees } :
          ASetOctopus(nextOctopus)
    \/ AUnload
    \/ \E layer \in LayersAtHand : AGetDepth(layer)
    \/ \E layerId \in SearchLayerIds \cup {"l9"} : AGetLayerDepth(layerId)
    \/ \E layer \in LayersAtHand : AGetParentLayer(layer)
    \/ \E layer \in LayersAtHand : AGetParentLayers(layer)
    \/ \E layer \in LayersAtHand : AGetParentLayerIds(layer)
    \/ \E layerId \in SearchLayerIds, args \in NestedOptions :
          AGetNestedLayers(layerId, args)

SpecLayers == InitSearch /\ [][NextLayers]_vars

(***************************************************************************)
(* SpecLookups: a design whose artboards are added and removed, looked up  *)
(* by component id and resolved from component instance layers             *)
(***************************************************************************)
\* Component ids asked for: one that artboards carry and one that none does.
LookupComponentIds == ComponentIds \cup {"s9"}

\* Layer content at hand: a plain layer and component instances referring to
\* an artboard id, to a component id, or to both.
InstanceLayers ==
    {LeafLayer("l2")}
    \cup { InstanceLayer("l2", [documentId |-> d]) : d \in ArtboardIds }
    \cup { InstanceLayer("l2", [symbolID |-> s]) : s \in LookupComponentIds }
    \cup { InstanceLayer("l2", [documentId |-> "b", symbolID |-> "s1"]) }

\* Who a layer belongs to: nobody ("none"), the artboard outside the design
\* ("detached"), or the artboard at a position of the design's list.
LayerOwners == {"none", "detached"} \cup { "a", "b" }

OwnerArtboard(owner) ==
    IF owner \in {"none", "detached"}
    THEN artboard
    ELSE artboardList[IndexOf(artboardList, owner)]

\* design.getArtboardByComponentId(componentId)
AGetArtboardByComponentId(componentId) ==
    /\ last' = [NoCall EXCEPT
                    !.op = "getArtboardByComponentId", !.id = componentId,
                    !.result = <<Design_getArtboardByComponentId(artboardList,
                                                                  componentId)>>]
    /\ UNCHANGED <<pages, artboardList, held, nextUid>>
    /\ ArtboardUnchanged

\* design.getComponentArtboards()
AGetComponentArtboards ==
    /\ last' = [NoCall EXCEPT
                    !.op = "getComponentArtboards",
                    !.result = ReadList(Design_getComponentArtboards(artboardList))]
    /\ UNCHANGED <<pages, artboardList, held, nextUid>>
    /\ ArtboardUnchanged

\* layer.getComponentArtboard() on a layer of the given content and owner.
AGetComponentArtboard(layerOctopus, owner) ==
    LET ab == OwnerArtboard(owner)
        layer == Layer(layerOctopus, Undefined,
                       IF owner = "none" THEN Null ELSE Artboard_id(ab))
        call == Layer_getComponentArtboard(layer, ab, artboardList)
    IN  /\ owner \in ArtboardIds => HasArtboard(artboardList, owner)
        /\ last' = [NoCall EXCEPT
                        !.op = "getComponentArtboard", !.id = Layer_id(layer),
                        !.args = <<layer>>,
                        !.returned = (owner \in ArtboardIds),
                        !.error = call.error,
                        !.result = IF call.error THEN <<>> ELSE <<call.artboard>>]
        /\ UNCHANGED <<pages, artboardList, held, nextUid>>
        /\ ArtboardUnchanged

\* The artboards added in these runs: a plain one, a component, and a named
\* one whose layers use a bitmap asset and a font.
LookupArtboards ==
    { [octopus |-> o, name |-> Undefined] : o \in ManifestContents }
    \cup { [octopus |-> Octopus(Undefined,
                            <<BitmapLayer("l1", <<"x">>, <<>>,
                                          <<TextLayer("l2", <<"f">>)>>)>>),
             name |-> "Abc"] }

\* Layer ids and selectors asked for: of layers the added artboards can have
\* and of one that none has.
LookupLayerIds == {"l2", "l4", "l9"}
LookupArtboardSelectors ==
    {IdSelector("a"), NameSelector("Abc"), NameSelector("Unknown")}
\* Options lists of the aggregates: none and {depth: 1}.
LookupOptions == {<<>>, <<AssetOptions(1, {"depth"}, 1, TRUE)>>}

\* A call on the design that changes nothing.
DesignQuery(op, id, args, result) ==
    /\ last' = [NoCall EXCEPT !.op = op, !.id = id, !.args = args, !.result = result]
    /\ UNCHANGED <<pages, artboardList, held, nextUid>>
    /\ ArtboardUnchanged

ADesignFindLayerById(layerId) ==
    DesignQuery("findLayerById", layerId, <<LayerSelector({layerId})>>,
                <<Design_findLayerById(artboardList, layerId)>>)

ADesignFindLayersById(layerId) ==
    DesignQuery("findLayersById", layerId, <<LayerSelector({layerId})>>,
                Design_findLayersById(artboardList, layerId))

ADesignFindLayer(selector) ==
    DesignQuery("findLayer", Null, <<selector>>,
                <<Design_findLayer(artboardList, selector)>>)

ADesignFindLayers(selector) ==
    DesignQuery("findLayers", Null, <<selector>>,
                Design_findLayers(artboardList, selector))

ADesignGetBitmapAssets(args) ==
    DesignQuery("getBitmapAssets", Null, args, Design_getBitmapAssets(artboardList, args))

ADesignGetFonts(args) ==
    DesignQuery("getFonts", Null, args, Design_getFonts(artboardList, args))

ADesignGetFlattenedLayers(args) ==
    DesignQuery("getFlattenedLayers", Null, args,
                Design_getFlattenedLayers(artboardList, args))

ADesignFindArtboard(selector) ==
    DesignQuery("findArtboard", Null, <<selector>>,
                <<Design_findArtboard(artboardList, selector)>>)

NextLookups ==
    \/ \E id \in ArtboardIds, added \in LookupArtboards :
          AddArtboard(id, added.octopus, Undefined, added.name)
    \/ \E id \in ArtboardIds : RemoveArtboard(id)
    \/ \E componentId \in LookupComponentIds : AGetArtboardByComponentId(componentId)
    \/ AGetComponentArtboards
    \/ \E layerOctopus \in InstanceLayers, owner \in LayerOwners :
          AGetComponentArtboard(layerOctopus, owner)
    \/ \E layerId \in LookupLayerIds : ADesignFindLayerById(layerId)
    \/ \E layerId \in LookupLayerIds : ADesignFindLayersById(layerId)
    \/ \E layerId \in LookupLayerIds : ADesignFindLayer(LayerSelector({layerId}))
    \/ \E layerId \in LookupLayerIds : ADesignFindLayers(LayerSelector({layerId}))
    \/ \E args \in LookupOptions : ADesignGetBitmapAssets(args)
    \/ \E args \in LookupOptions : ADesignGetFonts(args)
    \/ \E args \in LookupOptions : ADesignGetFlattenedLayers(args)
    \/ \E selector \in LookupArtboardSelectors : ADesignFindArtboard(selector)

SpecLookups == Init /\ [][NextLookups]_vars

(***************************************************************************)
(* SpecAssets: bitmap asset usage of the layers of one loaded artboard     *)
(***************************************************************************)
\* Layer trees whose layers share bitmap assets: between siblings, between a
\* layer and the layers nested in it, and across the levels.
AssetTrees ==
    { <<BitmapLayer("l1", <<>>, <<>>,
            <<BitmapLayer("l2", <<"x">>, <<>>, <<>>),
              BitmapLayer("l3", <<"x">>, <<"z">>,
                  <<BitmapLayer("l5", <<"y", "x">>, <<>>, <<>>)>>)>>),
        BitmapLayer("l4", <<"y">>, <<>>, <<>>)>>,
      <<BitmapLayer("l4", <<"x", "x">>, <<"x">>, <<>>),
        BitmapLayer("l1", <<"y">>, <<"z">>,
            <<BitmapLayer("l2", <<"z">>, <<>>,
                  <<BitmapLayer("l3", <<"y">>, <<>>,
                        <<LeafLayer("l5")>>)>>)>>)>> }

\* Options lists of getBitmapAssets: none, {depth: d}, {includePrerendered:
\* false} and {depth: d, includePrerendered: false}.
AssetDepths == {0, 1, 2, 3}
AssetArgs ==
    {<<>>}
    \cup { <<AssetOptions(1, {"depth"}, d, TRUE)>> : d \in AssetDepths }
    \cup { <<AssetOptions(1, {"includePrerendered"}, 0, FALSE)>> }
    \cup { <<AssetOptions(1, {"depth", "includePrerendered"}, d, FALSE)>> :
             d \in AssetDepths }

InitAssets ==
    \E tree \in AssetTrees :
        Construct("a", Octopus(Undefined, tree), NoManifest, Undefined, Undefined, FALSE)

\* artboard.getLayerById(layerId).getBitmapAssets(options)
AGetBitmapAssets(layerId, args) ==
    LET lookup == Artboard_getLayerById(artboard, layerId)
    IN  /\ lookup.result # NoLayer
        /\ artboard' = lookup.ab
        /\ last' = [NoCall EXCEPT
                        !.op = "getBitmapAssets", !.id = layerId, !.args = args,
                        !.result = Layer_getBitmapAssets(lookup.result, args)]
        /\ UNCHANGED hist
        /\ DesignUnchanged

NextAssets ==
    \/ \E nextOctopus \in { Octopus(Undefined, t) : t \in AssetTrees } :
          ASetOctopus(nextOctopus)
    \/ AUnload
    \/ \E layerId \in SearchLayerIds, args \in AssetArgs :
          AGetBitmapAssets(layerId, args)

SpecAssets == InitAssets /\ [][NextAssets]_vars

(***************************************************************************)
(* SpecSdk: an Sdk from createSdk, operations called on it and destroy()   *)
(* calls, interleaved at their awaits                                      *)
(***************************************************************************)
\* The parameters of createSdk: the token given or empty, cached and
\* rendering left out, true or false, the other options left out.
SdkParams ==
    { [token |-> token, cached |-> cached, rendering |-> rendering,
       systemFonts |-> Undefined, svgExport |-> Undefined] :
        token \in {"t", ""},
        cached \in {Undefined, JsTrue, JsFalse},
        rendering \in {Undefined, JsTrue, JsFalse} }

InitSdk ==
    /\ \E params \in SdkParams :
          /\ sdk = CreateSdk(params)
          /\ last = [NoCall EXCEPT !.op = "createSdk", !.args = <<params>>,
                                   !.error = ~CreateSdk(params).created,
                                   !.result = <<CreateSdk(params).error>>]
    /\ artboard = IdleArtboard
    /\ hist = IdleHist
    /\ pages = NoPages
    /\ artboardList = <<>>
    /\ held = <<>>
    /\ nextUid = 1
    /\ memo = IdleMemo
    /\ facade = IdleFacade
    /\ renderingArtboard = IdleRendering

SdkOthersUnchanged ==
    UNCHANGED <<artboard, hist, pages, artboardList, held, nextUid, memo, facade,
                renderingArtboard>>

\* The caller c calls the operation op.
ACallOperation(c, op) ==
    /\ sdk.created
    /\ sdk.calls[c].pc = "idle"
    /\ sdk' = Sdk_callOperation(sdk, c, op)
    /\ last' = [NoCall EXCEPT !.op = op, !.id = c,
                              !.error = (sdk'.calls[c].pc = "rejected"),
                              !.result = <<sdk'.calls[c].error>>]
    /\ SdkOthersUnchanged

\* The collaborators the call of c awaits answer, and the call goes on.
ACollaboratorsAnswer(c) ==
    /\ sdk.calls[c].pc = "awaitCollaborators"
    /\ sdk' = Sdk_resumeOperation(sdk, c)
    /\ UNCHANGED last
    /\ SdkOthersUnchanged

\* A collaborator the call of c awaits fails, and so does the call.
ACollaboratorsFail(c) ==
    /\ sdk.calls[c].pc = "awaitCollaborators"
    /\ sdk' = [sdk EXCEPT !.calls[c].pc = "rejected",
                          !.calls[c].error = CollaboratorFailure]
    /\ UNCHANGED last
    /\ SdkOthersUnchanged

\* The factory's promise of the engine e resolves.
AEngineStarts(e) ==
    /\ sdk.engines[e] = "starting"
    /\ sdk' = [sdk EXCEPT !.engines[e] = "running"]
    /\ UNCHANGED last
    /\ SdkOthersUnchanged

\* The factory's promise of the engine e rejects: the error handler calls
\* this.destroy() and gives null.
AEngineFails(e) ==
    /\ sdk.engines[e] = "starting"
    /\ sdk' = [Sdk_destroy(sdk, e) EXCEPT !.engines[e] = "failed"]
    /\ UNCHANGED last
    /\ SdkOthersUnchanged

\* The call of c gets the rendering engine it awaits, has it create the
\* rendering design when there is an engine, and returns the design.
AOperationGetsEngine(c) ==
    /\ sdk.calls[c].pc = "awaitRenderingEngine"
    /\ EngineSettled(sdk, sdk.calls[c].awaited)
    /\ sdk' = [sdk EXCEPT !.calls[c].pc = "done"]
    /\ UNCHANGED last
    /\ SdkOthersUnchanged

\* d calls destroy().
ADestroy(d) ==
    /\ sdk.created
    /\ sdk.destroys[d].pc = "idle"
    /\ sdk' = Sdk_destroy(sdk, d)
    /\ last' = [NoCall EXCEPT !.op = "destroy", !.id = d]
    /\ SdkOthersUnchanged

\* The destroy() of d gets the rendering engine it awaits.
ADestroyResumes(d) ==
    /\ sdk.destroys[d].pc = "awaitRenderingEngine"
    /\ EngineSettled(sdk, sdk.destroys[d].awaited)
    /\ sdk' = Sdk_destroyRenderingEngine(sdk, d)
    /\ UNCHANGED last
    /\ SdkOthersUnchanged

\* The rendering engine the destroy() of d destroys has terminated.
ADestroyCompletes(d) ==
    /\ sdk.destroys[d].pc = "awaitEngineDestroy"
    /\ sdk' = [sdk EXCEPT !.destroys[d].pc = "done"]
    /\ UNCHANGED last
    /\ SdkOthersUnchanged

NextSdk ==
    \/ \E c \in Callers, op \in SdkOperations : ACallOperation(c, op)
    \/ \E c \in Callers : ACollaboratorsAnswer(c)
    \/ \E c \in Callers : ACollaboratorsFail(c)
    \/ \E e \in Callers : AEngineStarts(e)
    \/ \E e \in Callers : AEngineFails(e)
    \/ \E c \in Callers : AOperationGetsEngine(c)
    \/ \E d \in DestroyCallers : ADestroy(d)
    \/ \E d \in Destroyers : ADestroyResumes(d)
    \/ \E d \in Destroyers : ADestroyCompletes(d)

SpecSdk == InitSdk /\ [][NextSdk]_vars

(***************************************************************************)
(* SpecFacade: a layer collection facade over a collection of layers of    *)
(* the artboards a and b and of layers without an artboard                 *)
(***************************************************************************)
FacadeLayerEntities ==
    { LayerEntity(id, artboardId) : id \in {"l1", "l2"}, artboardId \in {Null, "a", "b"} }

\* The underlying layer collections: up to three layers.
FacadeCollections ==
    {<<>>} \cup { <<x>> : x \in FacadeLayerEntities }
           \cup { <<x, y>> : x, y \in FacadeLayerEntities }
           \cup { <<x, y, z>> : x, y, z \in FacadeLayerEntities }

\* What the design facade resolves: every layer of both artboards, or every
\* layer but l2 of the artboard b.
FacadeResolved ==
    { {"a", "b"} \X {"l1", "l2"}, ({"a", "b"} \X {"l1", "l2"}) \ {<<"b", "l2">>} }

FacadeOthersUnchanged ==
    UNCHANGED <<artboard, hist, pages, artboardList, held, nextUid, memo, sdk,
                renderingArtboard>>

InitFacade ==
    /\ \E layerCollection \in FacadeCollections, resolved \in FacadeResolved :
          facade = NewLayerCollectionFacade(layerCollection, resolved)
    /\ last = NoCall
    /\ artboard = IdleArtboard
    /\ hist = IdleHist
    /\ pages = NoPages
    /\ artboardList = <<>>
    /\ held = <<>>
    /\ nextUid = 1
    /\ memo = IdleMemo
    /\ sdk = IdleSdk
    /\ renderingArtboard = IdleRendering

\* facade.length
AFacadeLength ==
    /\ last' = [NoCall EXCEPT !.op = "length",
                              !.result = <<LayerCollectionFacade_length(facade)>>]
    /\ UNCHANGED facade
    /\ FacadeOthersUnchanged

\* facade.getLayers() and [...facade], which iterates getLayers().values()
AFacadeGetLayers(op) ==
    /\ facade' = LayerCollectionFacade_getLayers(facade).facade
    /\ last' = [NoCall EXCEPT !.op = op,
                              !.result = LayerCollectionFacade_getLayers(facade).result]
    /\ FacadeOthersUnchanged

\* facade.renderToFile(), exportToSvgCode() and exportToSvgFile(): the call
\* is rejected, or handed to the design facade with args = <<artboardId,
\* layerIds>>.
AFacadeRender(op) ==
    /\ facade' = LayerCollectionFacade_getLayers(facade).facade
    /\ last' = [NoCall EXCEPT
                    !.op = op,
                    !.error = LayerCollectionFacade_renderTarget(facade).error,
                    !.result = IF LayerCollectionFacade_renderTarget(facade).error
                               THEN <<IF op = "renderToFile" THEN RenderMessage
                                                             ELSE ExportMessage>>
                               ELSE <<>>,
                    !.args = IF LayerCollectionFacade_renderTarget(facade).error
                             THEN <<>>
                             ELSE <<LayerCollectionFacade_renderTarget(facade).artboardId,
                                    LayerCollectionFacade_renderTarget(facade).layerIds>>]
    /\ FacadeOthersUnchanged

NextFacade ==
    \/ AFacadeLength
    \/ \E op \in {"getLayers", "iterate"} : AFacadeGetLayers(op)
    \/ \E op \in {"renderToFile", "exportToSvgCode", "exportToSvgFile"} :
          AFacadeRender(op)

SpecFacade == InitFacade /\ [][NextFacade]_vars

(***************************************************************************)
(* SpecRelations: parent and mask lookups of layers a caller holds while   *)
(* the content of their artboard is replaced or unloaded                   *)
(***************************************************************************)
RelationTrees ==
    { <<GroupLayer("l1", <<LeafLayer("l2"), MaskedLayer("l3", "l2")>>)>>,
      <<LeafLayer("l3"), MaskedLayer("l4", "l9")>>,
      <<GroupLayer("l5", <<LeafLayer("l2")>>)>> }

\* The layers a caller can hold: the layers of the artboard a, obtained from
\* it under any of its contents, and layers constructed without an artboard.
HeldLayers ==
    UNION { { CreateFlattenedLayers(tree, "a", Infinity)[i] :
                i \in 1..Len(CreateFlattenedLayers(tree, "a", Infinity)) } :
            tree \in RelationTrees }
    \cup { Layer(MaskedLayer("l3", maskedBy), parentLayerId, Null) :
             maskedBy \in {Undefined, "l2"}, parentLayerId \in {Undefined, "l1"} }

InitRelations ==
    \E tree \in RelationTrees :
        Construct("a", Octopus(Undefined, tree), NoManifest, Undefined, Undefined, FALSE)

\* layer.getParentLayer() on a layer held by the caller
AHeldGetParentLayer(layer) ==
    LET call == Layer_getParentLayer(layer, artboard)
    IN  /\ artboard' = AfterLayerLookup(layer, layer.parentLayerId, artboard)
        /\ last' = [NoCall EXCEPT
                        !.op = "getParentLayer", !.id = Layer_id(layer),
                        !.args = <<layer>>, !.error = call.error,
                        !.result = IF call.error \/ call.layer = NoLayer
                                   THEN <<>> ELSE <<call.layer>>]
        /\ UNCHANGED hist
        /\ DesignUnchanged

\* layer.getMaskLayer() on a layer held by the caller
AHeldGetMaskLayer(layer) ==
    LET call == Layer_getMaskLayer(layer, artboard)
    IN  /\ artboard' = AfterLayerLookup(layer, Layer_getMaskLayerId(layer), artboard)
        /\ last' = [NoCall EXCEPT
                        !.op = "getMaskLayer", !.id = Layer_id(layer),
                        !.args = <<layer>>, !.error = call.error,
                        !.result = IF call.error \/ call.layer = NoLayer
                                   THEN <<>> ELSE <<call.layer>>]
        /\ UNCHANGED hist
        /\ DesignUnchanged

NextRelations ==
    \/ \E nextOctopus \in { Octopus(Undefined, t) : t \in RelationTrees } :
          ASetOctopus(nextOctopus)
    \/ AUnload
    \/ \E layer \in HeldLayers : AHeldGetParentLayer(layer)
    \/ \E layer \in HeldLayers : AHeldGetMaskLayer(layer)

SpecRelations == InitRelations /\ [][NextRelations]_vars

(***************************************************************************)
(* SpecFrame: a design whose artboards are added and removed while the     *)
(* artboards it holds are loaded, unloaded and asked for their layer views *)
(***************************************************************************)
FrameContents ==
    { Octopus(Undefined, <<GroupLayer("l1", <<LeafLayer("l2")>>)>>),
      Octopus(Undefined, <<LeafLayer("l4")>>) }

\* Argument lists of the getFlattenedLayers calls on the artboards.
FrameArgs == {<<>>}

\* The artboard id of the design.
Member(id) == artboardList[IndexOf(artboardList, id)]

\* A call on the artboard id of the design that leaves the artboard as nextAb.
MemberCall(op, id, nextAb, result) ==
    /\ artboardList' = ReplaceArtboard(artboardList, id, nextAb)
    /\ last' = [NoCall EXCEPT !.op = op, !.id = id, !.result = result]
    /\ UNCHANGED <<pages, held, nextUid>>
    /\ ArtboardUnchanged

\* design.getArtboardById(id).setOctopus(nextOctopus)
MemberSetOctopus(id, nextOctopus) ==
    /\ HasArtboard(artboardList, id)
    /\ MemberCall("setOctopus", id,
                  Artboard_setOctopus(Member(id), nextOctopus, DesignWith(pages)), <<>>)

\* design.getArtboardById(id).unload()
MemberUnload(id) ==
    /\ HasArtboard(artboardList, id)
    /\ MemberCall("unload", id, Artboard_unload(Member(id)), <<>>)

\* design.getArtboardById(id).getRootLayers()
MemberGetRootLayers(id) ==
    /\ HasArtboard(artboardList, id)
    /\ MemberCall("getRootLayers", id, Artboard_getRootLayers(Member(id)).ab,
                  Artboard_getRootLayers(Member(id)).result)

\* design.getArtboardById(id).getFlattenedLayers(...args)
MemberGetFlattenedLayers(id, args) ==
    /\ HasArtboard(artboardList, id)
    /\ Len(Artboard_getFlattenedLayers(Member(id), args).ab.flattenedLayersCache)
          <= MaxCacheEntries
    /\ MemberCall("getFlattenedLayers", id,
                  Artboard_getFlattenedLayers(Member(id), args).ab,
                  Artboard_getFlattenedLayers(Member(id), args).result)

NextFrame ==
    \/ \E id \in ArtboardIds, octopus \in FrameContents :
          AddArtboard(id, octopus, Undefined, Undefined)
    \/ \E id \in ArtboardIds : RemoveArtboard(id)
    \/ \E id \in ArtboardIds, nextOctopus \in FrameContents :
          MemberSetOctopus(id, nextOctopus)
    \/ \E id \in ArtboardIds : MemberUnload(id)
    \/ \E id \in ArtboardIds : MemberGetRootLayers(id)
    \/ \E id \in ArtboardIds, args \in FrameArgs : MemberGetFlattenedLayers(id, args)

SpecFrame == Init /\ [][NextFrame]_vars

(***************************************************************************)
(* SpecPageLookups: a design with the pages p1 and p2, artboards added,    *)
(* removed and moved between the pages, and looked up through the pages    *)
(***************************************************************************)
BothPages == [p \in PageIds |-> [name |-> Null]]

InitPageLookups ==
    /\ artboardList = <<>>
    /\ pages = BothPages
    /\ held = <<>>
    /\ nextUid = 1
    /\ last = [NoCall EXCEPT !.op = "new Design"]
    /\ artboard = IdleArtboard
    /\ hist = IdleHist
    /\ memo = IdleMemo
    /\ sdk = IdleSdk
    /\ facade = IdleFacade
    /\ renderingArtboard = IdleRendering

\* Selectors of the page lookups: {id}, {name}, and functions.
PageSelectors ==
    { IdSelector(id) : id \in ArtboardIds }
    \cup { NameSelector("Abc") }
    \cup { FunctionSelector(ids) : ids \in {{"a"}, {"a", "b"}} }

\* A lookup on the page pageId; result lists what it returned.
PageLookup(op, pageId, arg, result) ==
    /\ last' = [NoCall EXCEPT !.op = op, !.pageId = pageId, !.args = <<arg>>,
                              !.result = result]
    /\ UNCHANGED <<pages, artboardList, held, nextUid>>
    /\ ArtboardUnchanged

\* The result list of a lookup that returns an artboard or null.
Found(ref) == IF ref = NoArtboard THEN <<>> ELSE <<ref>>

APageGetArtboardById(pageId, id) ==
    PageLookup("Page.getArtboardById", pageId, id,
               Found(Page_getArtboardById(artboardList, pageId, id)))

APageGetArtboardByComponentId(pageId, componentId) ==
    PageLookup("Page.getArtboardByComponentId", pageId, componentId,
               Found(Page_getArtboardByComponentId(artboardList, pageId, componentId)))

APageFindArtboard(pageId, selector) ==
    PageLookup("Page.findArtboard", pageId, selector,
               Found(Page_findArtboard(artboardList, pageId, selector)))

APageFindArtboards(pageId, selector) ==
    PageLookup("Page.findArtboards", pageId, selector,
               Page_findArtboards(artboardList, pageId, selector))

NextPageLookups ==
    \/ \E id \in ArtboardIds, octopus \in ManifestContents,
          pageId \in {Undefined} \cup PageIds, name \in {Undefined, "Abc"} :
          AddArtboard(id, octopus, pageId, name)
    \/ \E id \in ArtboardIds : RemoveArtboard(id)
    \/ \E id \in ArtboardIds, pageId \in PageIds : MemberSetPage(id, pageId)
    \/ \E pageId \in PageIds, id \in ArtboardIds : APageGetArtboardById(pageId, id)
    \/ \E pageId \in PageIds, componentId \in ComponentIds :
          APageGetArtboardByComponentId(pageId, componentId)
    \/ \E pageId \in PageIds, selector \in PageSelectors :
          APageFindArtboard(pageId, selector)
    \/ \E pageId \in PageIds, selector \in PageSelectors :
          APageFindArtboards(pageId, selector)

SpecPageLookups == InitPageLookups /\ [][NextPageLookups]_vars

(***************************************************************************)
(* SpecRendering: a rendering artboard and load() calls on it, interleaved *)
(* at their awaits, with the rendering process answering ok or not         *)
(***************************************************************************)
\* The parameters of the constructor: with or without a symbol id, ready
\* left out, true or false, the pending symbols left out, none or one.
RenderingParams ==
    { [symbolId |-> symbolId, ready |-> ready, pendingSymbolIds |-> pendingSymbolIds] :
        symbolId \in {Undefined, "s1"},
        ready \in {Undefined, JsTrue, JsFalse},
        pendingSymbolIds \in {LeftOut, Given(<<>>), Given(<<"s2">>)} }

\* What the rendering process answers to 'get-artboard-dependencies'.
DependencyResults ==
    { [ok |-> ok, symbols |-> symbols] :
        ok \in BOOLEAN, symbols \in {LeftOut, Given(<<>>), Given(<<"s2">>), Given(<<"s2", "s3">>)} }

RenderingOthersUnchanged ==
    UNCHANGED <<artboard, hist, pages, artboardList, held, nextUid, memo, sdk, facade>>

InitRendering ==
    /\ \E params \in RenderingParams :
          /\ renderingArtboard = NewRenderingArtboard(params)
          /\ last = [NoCall EXCEPT !.op = "new RenderingArtboard", !.args = <<params>>]
    /\ artboard = IdleArtboard
    /\ hist = IdleHist
    /\ pages = NoPages
    /\ artboardList = <<>>
    /\ held = <<>>
    /\ nextUid = 1
    /\ memo = IdleMemo
    /\ sdk = IdleSdk
    /\ facade = IdleFacade

\* The load() of c has ended: what it threw, or the dependency result it
\* stored.
LoadEnded(c, dependencyResult) ==
    IF renderingArtboard'.loads[c].pc \in {"failed", "done"}
    THEN last' = [NoCall EXCEPT !.op = "load", !.id = c,
                                !.error = (renderingArtboard'.loads[c].pc = "failed"),
                                !.args = <<dependencyResult>>,
                                !.result = <<renderingArtboard'.loads[c].error>>]
    ELSE UNCHANGED last

\* The caller c calls load().
ARenderingLoad(c) ==
    /\ renderingArtboard.loads[c].pc \in {"idle", "done", "failed"}
    /\ renderingArtboard' = RenderingArtboard_load(renderingArtboard, c)
    /\ UNCHANGED last
    /\ RenderingOthersUnchanged

ALoadAnswers(c, ok) ==
    /\ renderingArtboard.loads[c].pc = "awaitLoad"
    /\ renderingArtboard' = RenderingArtboard_loadAnswers(renderingArtboard, c, ok)
    /\ LoadEnded(c, [ok |-> TRUE, symbols |-> LeftOut])
    /\ RenderingOthersUnchanged

ASymbolLoadAnswers(c, ok) ==
    /\ renderingArtboard.loads[c].pc = "awaitSymbolLoad"
    /\ renderingArtboard' = RenderingArtboard_symbolLoadAnswers(renderingArtboard, c, ok)
    /\ LoadEnded(c, [ok |-> TRUE, symbols |-> LeftOut])
    /\ RenderingOthersUnchanged

ADependenciesAnswer(c, dependencyResult) ==
    /\ renderingArtboard.loads[c].pc = "awaitDependencies"
    /\ renderingArtboard' =
           RenderingArtboard_dependenciesAnswer(renderingArtboard, c, dependencyResult)
    /\ LoadEnded(c, dependencyResult)
    /\ RenderingOthersUnchanged

NextRendering ==
    \/ \E c \in Callers : ARenderingLoad(c)
    \/ \E c \in Callers, ok \in BOOLEAN : ALoadAnswers(c, ok)
    \/ \E c \in Callers, ok \in BOOLEAN : ASymbolLoadAnswers(c, ok)
    \/ \E c \in Callers, dependencyResult \in DependencyResults :
          ADependenciesAnswer(c, dependencyResult)

SpecRendering == InitRendering /\ [][NextRendering]_vars

(***************************************************************************)
(* Properties of the Artboard                                              *)
(***************************************************************************)
\* The layer view the call op(args) computes from the content octopus.
ViewFrom(op, args, octopus, id) ==
    IF op = "getRootLayers"
    THEN CreateLayers(octopus.layers, Null, id)
    ELSE CreateFlattenedLayers(octopus.layers, id, OptionsDepth(args))

IsLayerViewCall(call) == call.op \in {"getRootLayers", "getFlattenedLayers"}

\* C2: the first getRootLayers() and the first getFlattenedLayers(d), for each
\* d, issued after setOctopus(c) return the view computed from c (the empty
\* view when the artboard was unloaded in between), never a view of content
\* held before that setOctopus call.
C2_FirstViewAfterSetOctopusIsFresh ==
    [][ ( /\ IsLayerViewCall(last')
          /\ hist.lastSet.present
          /\ CallKey(last'.op, last'.args) \notin hist.fetched )
        => last'.result =
             ViewFrom(last'.op, last'.args,
                      IF Artboard_isLoaded(artboard) THEN hist.lastSet ELSE NoOctopus,
                      Artboard_id(artboard)) ]_vars

\* A first layer-view call after a setOctopus that emptied a filled cache
\* returned a non-empty view.
C2_Witness ==
    /\ IsLayerViewCall(last)
    /\ hist.cleared
    /\ hist.fetched = {CallKey(last.op, last.args)}
    /\ last.result # <<>>
    /\ last.result = ViewFrom(last.op, last.args, hist.lastSet, Artboard_id(artboard))

\* C3: while the artboard is unloaded, getRootLayers() and getFlattenedLayers()
\* return an empty collection.
C3_UnloadedViewsAreEmpty ==
    ~Artboard_isLoaded(artboard) =>
        /\ Artboard_getRootLayers(artboard).result = <<>>
        /\ \A args \in FlattenArgs :
               Artboard_getFlattenedLayers(artboard, args).result = <<>>

\* C4: an artboard constructed without content is unloaded; setOctopus(c)
\* leads to loaded with getOctopus() = c; unload() leads to unloaded with
\* getOctopus() returning nothing; isLoaded() holds exactly when getOctopus()
\* returns content; unload() leaves id, name, pageId and componentId unchanged.
C4_LoadState ==
    /\ (last.op = "new" /\ ~last.octopus.present => ~Artboard_isLoaded(artboard))
    /\ (last.op = "setOctopus" =>
            Artboard_isLoaded(artboard) /\ Artboard_getOctopus(artboard) = last.octopus)
    /\ (last.op = "unload" =>
            ~Artboard_isLoaded(artboard) /\ Artboard_getOctopus(artboard) = NoOctopus)
    /\ (Artboard_isLoaded(artboard) <=> Artboard_getOctopus(artboard) # NoOctopus)

C4_UnloadKeepsManifest ==
    last'.op = "unload" =>
        /\ Artboard_id(artboard') = Artboard_id(artboard)
        /\ Artboard_name(artboard') = Artboard_name(artboard)
        /\ Artboard_pageId(artboard') = Artboard_pageId(artboard)
        /\ Artboard_componentId(artboard') = Artboard_componentId(artboard)

C4_LoadStateMachine == []C4_LoadState /\ [][C4_UnloadKeepsManifest]_vars

\* A loaded component artboard on a page was unloaded.
C4_Witness ==
    /\ last.op = "unload"
    /\ hist.lastSet.present
    /\ Artboard_pageId(artboard) # Null
    /\ Artboard_componentId(artboard) # Null
    /\ Artboard_name(artboard) # Null

\* C5: setManifest(m) with an artboard id other than the current one raises an
\* error and leaves the manifest unchanged, and the artboard's id always is
\* the id it was constructed with.
C5_RejectsOtherId ==
    (last'.op = "setManifest" /\ last'.id # Artboard_id(artboard)) =>
        /\ last'.error
        /\ Artboard_getManifest(artboard') = Artboard_getManifest(artboard)

C5_IdentityIsImmutable ==
    /\ [](Artboard_id(artboard) = hist.constructedId)
    /\ [][C5_RejectsOtherId]_vars

\* setManifest was refused for a manifest of another artboard.
C5_Witness ==
    /\ last.op = "setManifest"
    /\ last.error
    /\ last.id # Artboard_id(artboard)
    /\ Artboard_id(artboard) = hist.constructedId

(***************************************************************************)
(* Properties of the Design                                                *)
(***************************************************************************)
\* The artboards of the list that a list query is to return.
InQuery(query, ab) ==
    CASE query.op = "getArtboards" -> TRUE
      [] query.op = "getComponentArtboards" -> ab.manifest.symbol_id \in ComponentIds
      [] query.op = "getPageArtboards" -> ab.manifest.page_original_id = query.pageId

ExpectedList(query, list) ==
    LET Wanted(ab) == InQuery(query, ab)
    IN  Refs(SelectSeq(list, Wanted))

\* C1: a list returned by getArtboards(), getPageArtboards(p) or
\* getComponentArtboards() keeps the members and the order it had when it was
\* returned, whatever addArtboard and removeArtboard calls follow, and a list
\* obtained after them has the artboards of the design as they are then.
C1_SnapshotIsolation ==
    /\ \A i \in 1..Len(held) : HeldItems(held[i]) = held[i].returned
    /\ \A query \in ListQueries :
           ReadList(RunListQuery(artboardList, query)) = ExpectedList(query, artboardList)

\* The caller holds a non-empty list that the design has changed under since.
C1_Witness ==
    /\ held # <<>>
    /\ held[1].returned # <<>>
    /\ HeldItems(held[1]) = held[1].returned
    /\ ReadList(RunListQuery(artboardList, held[1].query)) # held[1].returned
    /\ last.op \in {"addArtboard", "removeArtboard"}

AllSelectors ==
    { IdSelector(id) : id \in ArtboardIds }
    \cup { NameSelector(n) : n \in Names \cup {"Unknown"} }
    \cup { NameListSelector(ns) : ns \in (SUBSET Names) \ {{}} }
    \cup { NamePatternSelector(ns) : ns \in (SUBSET Names) \ {{}} }

\* C6: after addArtboard(id, content), getArtboardById(id) returns an artboard
\* whose id is id; after removeArtboard(id), neither getArtboardById(id) nor
\* any findArtboard or findArtboards result contains the removed artboard.
C6_IdentityRoundTrip ==
    /\ (last.op = "addArtboard" =>
            /\ Design_getArtboardById(artboardList, last.id) # NoArtboard
            /\ Design_getArtboardById(artboardList, last.id).id = last.id)
    /\ (last.op = "removeArtboard" =>
            /\ Design_getArtboardById(artboardList, last.id) = NoArtboard
            /\ \A selector \in AllSelectors :
                   /\ Design_findArtboard(artboardList, selector).id # last.id
                   /\ \A i \in 1..Len(Design_findArtboards(artboardList, selector)) :
                          /\ Design_findArtboards(artboardList, selector)[i].id # last.id
                          /\ \A j \in 1..Len(last.result) :
                                 Design_findArtboards(artboardList, selector)[i].uid
                                     # last.result[j].uid)

\* An artboard was removed and an artboard of the same name is still found.
C6_Witness ==
    /\ last.op = "removeArtboard"
    /\ last.returned
    /\ Len(artboardList) = 1
    /\ \E name \in Names :
          Design_findArtboard(artboardList, NameSelector(name)) # NoArtboard

\* C7: addArtboard(id, ...) fails when the design has an artboard with that id,
\* and the failed call leaves the artboards of the design and their order
\* unchanged.
C7_DuplicateAddStep ==
    (last'.op = "addArtboard" /\ HasArtboard(artboardList, last'.id)) =>
        /\ last'.error
        /\ artboardList' = artboardList

C7_DuplicateAddFails == [][C7_DuplicateAddStep]_vars

\* An add of an id the design has was refused while it held two artboards.
C7_Witness ==
    /\ last.op = "addArtboard"
    /\ last.error
    /\ Len(artboardList) = 2

\* The matching artboards, in insertion order.
ExpectedMatches(selector, list) ==
    LET Matching(ab) ==
            IF selector.kind = "id"
            THEN ab.manifest.artboard_original_id = selector.id
            ELSE ab.manifest.artboard_name \in selector.names
    IN  Refs(SelectSeq(list, Matching))

\* C9: findArtboards(selector) returns every artboard of the design that
\* matches the selector (a name, a list of names or a name pattern), in
\* insertion order, and findArtboard(selector) returns the first of them, or
\* nothing when there is none.
C9_SelectorOrdering ==
    \A selector \in AllSelectors :
        LET found == Design_findArtboards(artboardList, selector)
        IN  /\ found = ExpectedMatches(selector, artboardList)
            /\ Design_findArtboard(artboardList, selector) =
                   IF found = <<>> THEN NoArtboard ELSE found[1]

\* Two artboards of one name are in the design, the later id first.
C9_Witness ==
    /\ Len(artboardList) = 2
    /\ Artboard_id(artboardList[1]) = "b"
    /\ Artboard_name(artboardList[1]) = "Abc"
    /\ Artboard_name(artboardList[2]) = "Abc"
    /\ Len(Design_findArtboards(artboardList, NameSelector("Abc"))) = 2

(***************************************************************************)
(* Properties of the Page                                                  *)
(***************************************************************************)
\* The artboards of the design whose page id is pageId, in insertion order.
ExpectedPageArtboards(list, pageId) ==
    LET OnPage(ab) == Artboard_pageId(ab) = pageId
    IN  Refs(SelectSeq(list, OnPage))

\* C8: design.getPageArtboards(p) and page.getArtboards() of the page p hold
\* exactly the artboards of the design whose current pageId is p, in the
\* insertion order of the design, also after setPage changed a pageId.
C8_PageFiltering ==
    \A pageId \in PageIds :
        /\ Design_getPageArtboards(artboardList, pageId).items
               = ExpectedPageArtboards(artboardList, pageId)
        /\ Page_getArtboards(artboardList, pageId).items
               = ExpectedPageArtboards(artboardList, pageId)

\* setPage moved the first artboard of the design to the page of the second,
\* away from the page it was added with.
C8_Witness ==
    /\ last.op = "setPage"
    /\ Len(artboardList) = 2
    /\ last.id = Artboard_id(artboardList[1])
    /\ last.pageId = "p2"
    /\ Len(Page_getArtboards(artboardList, "p2").items) = 2
    /\ "p2" \in DOMAIN pages

\* C10: Page.addArtboard(id) sets the pageId of the artboard with that id to
\* the id of the page whenever the design has the artboard, whatever page it
\* is assigned to, and fails only when the design has no artboard of that id.
C10_PageAddArtboardStep ==
    last'.op = "Page.addArtboard" =>
        IF HasArtboard(artboardList, last'.id)
        THEN /\ ~last'.error
             /\ HasArtboard(artboardList', last'.id)
             /\ Artboard_pageId(artboardList'[IndexOf(artboardList', last'.id)])
                    = last'.pageId
        ELSE last'.error

C10_PageAddArtboardAssigns == [][C10_PageAddArtboardStep]_vars

\* C11: Page.unassignArtboard(id) on a member of the page, and
\* Artboard.unassignFromPage(), leave the artboard's pageId null, so that the
\* artboard is no longer among page.getArtboards(), and keep the artboard in
\* the design.
C11_UnassignStep ==
    ( \/ (last'.op = "Page.unassignArtboard" /\ last'.returned)
      \/ last'.op = "unassignFromPage" ) =>
        /\ HasArtboard(artboardList', last'.id)
        /\ Artboard_pageId(artboardList'[IndexOf(artboardList', last'.id)]) = Null
        /\ \A pageId \in PageIds :
               \A i \in 1..Len(Page_getArtboards(artboardList', pageId).items) :
                   Page_getArtboards(artboardList', pageId).items[i].id # last'.id

C11_UnassignClearsPage == [][C11_UnassignStep]_vars

\* The artboard id is in the design and assigned to the page pageId.
IsPageMember(list, pageId, id) ==
    /\ HasArtboard(list, id)
    /\ list[IndexOf(list, id)].manifest.page_original_id = pageId

\* C12: Page.removeArtboard(id) returns false and leaves the artboards of the
\* design unchanged when no artboard has that id or the artboard is not on
\* this page; when the artboard is on the page it is removed from the design,
\* the other artboards stay, and the call returns true.
C12_PageRemoveStep ==
    last'.op = "Page.removeArtboard" =>
        IF IsPageMember(artboardList, last'.pageId, last'.id)
        THEN /\ last'.returned
             /\ ~HasArtboard(artboardList', last'.id)
             /\ LET Others(ab) == ab.manifest.artboard_original_id # last'.id
                IN  artboardList' = SelectSeq(artboardList, Others)
        ELSE /\ ~last'.returned
             /\ artboardList' = artboardList

C13_PageReferenceInvariant ==
    \A i \in 1..Len(artboardList) :
        \/ Artboard_pageId(artboardList[i]) = Null
        \/ Artboard_pageId(artboardList[i]) \in DOMAIN pages

\* C14 as stated: getPage() raises an error whenever the artboard is detached.
C14_GetPageDetachedStep ==
    (last'.op = "getPage" /\ ~artboard.attached) => last'.error

C14_GetPageFailsWhenDetached == [][C14_GetPageDetachedStep]_vars

\* C14, amended: getPage() raises an error exactly when the artboard has a
\* pageId and is detached; an artboard without a pageId returns nothing,
\* detached or not.
C14_GetPageStep ==
    last'.op = "getPage" =>
        /\ last'.error <=> (Artboard_pageId(artboard) # Null /\ ~artboard.attached)
        /\ Artboard_pageId(artboard) = Null => last'.result = <<>>

C14_GetPageFailsWhenDetachedWithPageId == [][C14_GetPageStep]_vars

\* getPage() failed on a detached artboard that has a pageId.
C14_Witness ==
    /\ last.op = "getPage"
    /\ last.error
    /\ ~artboard.attached
    /\ Artboard_pageId(artboard) = "p2"

\* Every layer of a layer tree with its nesting depth (root layers have depth
\* 1) and its parent, in depth-first pre-order.
RECURSIVE LayersWithDepth(_, _, _)
LayersWithDepth(layerDataList, parentLayerId, depth) ==
    IF layerDataList = <<>>
    THEN <<>>
    ELSE <<[id |-> layerDataList[1].id, parentLayerId |-> parentLayerId,
            depth |-> depth]>>
         \o LayersWithDepth(layerDataList[1].layers, layerDataList[1].id, depth + 1)
         \o LayersWithDepth(Tail(layerDataList), parentLayerId, depth)

\* The layers of nesting depth at most d, in document order.
LayersDownTo(layerDataList, d) ==
    LET Shallow(l) == l.depth <= d
    IN  SelectSeq(LayersWithDepth(layerDataList, Null, 1), Shallow)

\* A layer collection as the ids, parents and owners of its layers.
LayerSummary(layers, depths) ==
    [i \in 1..Len(layers) |->
        [id |-> Layer_id(layers[i]), parentLayerId |-> layers[i].parentLayerId,
         depth |-> depths[i].depth]]

\* C15: on a loaded artboard getFlattenedLayers({depth: d}) returns exactly the
\* layers of nesting depth at most d, in document order: depth 1 gives the
\* root layers, depth 2 adds their direct children, and the unlimited depth
\* gives every layer.
C15_FlattenStep ==
    ( /\ last'.op = "getFlattenedLayers"
      /\ Artboard_isLoaded(artboard)
      /\ last'.args # <<>>
      /\ "depth" \in last'.args[1].keys
      /\ last'.args[1].vals.depth >= 1 ) =>
        LET expected == LayersDownTo(artboard.octopus.layers, last'.args[1].vals.depth)
        IN  /\ Len(last'.result) = Len(expected)
            /\ LayerSummary(last'.result, expected) = expected
            /\ \A i \in 1..Len(last'.result) :
                   last'.result[i].artboard = Artboard_id(artboard)

C15_DepthLimitedFlatten == [][C15_FlattenStep]_vars

\* getFlattenedLayers({depth: 2}) returned the group, its child and the layer
\* that follows the group, without the layers nested deeper.
C15_Witness ==
    /\ last.op = "getFlattenedLayers"
    /\ Artboard_isLoaded(artboard)
    /\ last.args # <<>>
    /\ "depth" \in last.args[1].keys
    /\ last.args[1].vals.depth = 2
    /\ LayerIds(last.result) = <<"l1", "l2", "l4">>

\* The argument lists that ask for the unlimited depth: none, {}, {depth: 0}
\* and {depth: Infinity}.
IsUnlimitedArgs(args) ==
    \/ args = <<>>
    \/ /\ args[1].kind = "object"
       /\ ("depth" \in args[1].keys => args[1].vals.depth \in {0, Infinity})

\* C16: getFlattenedLayers called with no options, with {}, with {depth: 0} and
\* with {depth: Infinity} share one cache entry: the cache never holds two
\* entries for the unlimited depth, and such a call made when an entry for the
\* unlimited depth is cached adds no entry.
C16_CanonicalDepthKey ==
    Cardinality({ i \in 1..Len(artboard.flattenedLayersCache) :
                    IsUnlimitedArgs(artboard.flattenedLayersCache[i].args) }) <= 1

(***************************************************************************)
(* Properties of the memoized accessor                                     *)
(***************************************************************************)
\* C17: between two clear() calls the wrapped computation runs at most once
\* per argument combination under the configured equality, every call returns
\* the result computed for its own combination, and a call never removes or
\* replaces the entry cached for another combination.
C17_OncePerCombination ==
    /\ \A i, j \in 1..Len(memo.ran) :
           i < j => ~ShallowEqualArrays(memo.ran[i], memo.ran[j], memo.depth)
    /\ last.op = "memoizer" =>
           ShallowEqualArrays(last.args, last.result[1].args, memo.depth)

C17_NoEvictionStep ==
    last'.op = "memoizer" =>
        /\ Len(memo'.cache) >= Len(memo.cache)
        /\ \A i \in 1..Len(memo.cache) : memo'.cache[i] = memo.cache[i]

C17_MultiSlotCaching == []C17_OncePerCombination /\ [][C17_NoEvictionStep]_vars

\* A call hit the first of three cached entries, computed before the source
\* changed.
C17_Witness ==
    /\ last.op = "memoizer"
    /\ ~last.returned
    /\ Len(memo.cache) = 3
    /\ last.result[1] = memo.cache[1].result
    /\ last.result[1].source # memo.source

\* The cache holds an entry for the very objects of args, and for objects with
\* the fields of those of args.
CachedForSameObjects(args) ==
    \E i \in 1..Len(memo.cache) : memo.cache[i].args = args
CachedForEqualFields(args) ==
    \E i \in 1..Len(memo.cache) : ArgsShape(memo.cache[i].args) = ArgsShape(args)

\* C18 as stated: with the default comparison depth 1, a call whose options
\* object has the fields of the options object of a cached entry returns that
\* entry without running the computation.
C18_DefaultDepthStep ==
    (last'.op = "memoizer" /\ memo.depth = 1 /\ CachedForEqualFields(last'.args))
        => ~last'.returned

C18_DefaultDepthComparesFields == [][C18_DefaultDepthStep]_vars

\* C18, amended: with the default comparison depth 1 a call hits a cached
\* entry exactly when its arguments are the very objects of that entry; with
\* the comparison depth 2 it hits exactly when its options object has the
\* fields of the options object of a cached entry, be it another object.
C18_EqualityStep ==
    last'.op = "memoizer" =>
        ( ~last'.returned <=>
            IF memo.depth = 1
            THEN CachedForSameObjects(last'.args)
            ELSE CachedForEqualFields(last'.args) )

C18_DepthTwoComparesFields == [][C18_EqualityStep]_vars

\* With the comparison depth 2 a call with one {depth: 1} object returned the
\* entry computed for another {depth: 1} object.
C18_Witness ==
    /\ last.op = "memoizer"
    /\ memo.depth = 2
    /\ ~last.returned
    /\ last.args = <<DepthOptions(2, 1)>>
    /\ last.result[1].args = <<DepthOptions(1, 1)>>

\* The computation ran since the last clear() for the combination of args.
RanSinceClear(args) ==
    \E i \in 1..Len(memo.ran) : ShallowEqualArrays(args, memo.ran[i], memo.depth)

\* C19: clear() removes every cached entry, and the first call after clear()
\* for any argument combination runs the wrapped computation again and returns
\* the result it computes then.
C19_ClearStep ==
    /\ last'.op = "clear" => memo'.cache = <<>>
    /\ (last'.op = "memoizer" /\ ~RanSinceClear(last'.args)) =>
           /\ last'.returned
           /\ last'.result = <<MemoFn(last'.args, memo.source)>>

C19_ClearInvalidates == [][C19_ClearStep]_vars

\* The first call after a clear() for a combination that was cached before it
\* ran again and read the source changed since.
C19_Witness ==
    /\ last.op = "memoizer"
    /\ last.returned
    /\ memo.ran = <<last.args>>
    /\ last.args \in memo.dropped
    /\ last.args # <<>>
    /\ last.result[1].source = 1
    /\ memo.source = 1

(***************************************************************************)
(* Properties of the layer search                                          *)
(***************************************************************************)
\* The position of every layer of a layer tree: the path of child indices
\* that leads to it.
RECURSIVE LayerPaths(_, _, _)
LayerPaths(layerDataList, prefix, i) ==
    IF i > Len(layerDataList)
    THEN {}
    ELSE {[id |-> layerDataList[i].id, path |-> Append(prefix, i)]}
         \cup LayerPaths(layerDataList[i].layers, Append(prefix, i), 1)
         \cup LayerPaths(layerDataList, prefix, i + 1)

PathOf(tree, id) == (CHOOSE p \in LayerPaths(tree, <<>>, 1) : p.id = id).path

IsPrefix(p, q) == Len(p) <= Len(q) /\ SubSeq(q, 1, Len(p)) = p

\* p comes before q in document order: p is an ancestor of q, or p lies in the
\* subtree of an earlier sibling than the one q lies in.
InDocumentOrder(p, q) ==
    \/ (p # q /\ IsPrefix(p, q))
    \/ \E k \in 1..Len(p) :
          /\ k <= Len(q)
          /\ SubSeq(p, 1, k - 1) = SubSeq(q, 1, k - 1)
          /\ p[k] < q[k]

\* The ids a search started at the position from, descending depth levels,
\* is to find.
SearchScope(tree, from, selector, depth) ==
    { p.id : p \in { q \in LayerPaths(tree, <<>>, 1) :
                       /\ q.id \in selector.ids
                       /\ IsPrefix(from, q.path)
                       /\ q.path # from
                       /\ Len(q.path) - Len(from) <= depth } }

IsSearch(call) ==
    call.op \in {"findNestedLayers", "findNestedLayer", "findLayers", "findLayer"}

\* The layers findNestedLayers / findLayers returns for the arguments of a call.
SearchResult(call) ==
    IF call.op \in {"findNestedLayers", "findNestedLayer"}
    THEN Layer_findNestedLayers(
             Artboard_getLayerById(artboard, call.id).result, call.args[1],
             Tail(call.args))
    ELSE LayerCollection_findLayers(
             Artboard_getRootLayers(artboard).result, call.args[1], Tail(call.args))

\* C20: findNestedLayers and the collection-level findLayers return exactly the
\* matching layers within the depth searched, each once, in depth-first
\* pre-order (the matches nested in a layer come before every match in its
\* following siblings), and findNestedLayer and findLayer return the first
\* layer of that order, or nothing when there is no match.
C20_DocumentOrderSearch ==
    IsSearch(last) =>
        LET tree == artboard.octopus.layers
            from == IF last.op \in {"findNestedLayers", "findNestedLayer"}
                    THEN PathOf(tree, last.id)
                    ELSE <<>>
            found == LayerIds(SearchResult(last))
        IN  /\ { found[i] : i \in 1..Len(found) }
                   = SearchScope(tree, from, last.args[1], OptionsDepth(Tail(last.args)))
            /\ \A i, j \in 1..Len(found) :
                   i < j => InDocumentOrder(PathOf(tree, found[i]), PathOf(tree, found[j]))
            /\ last.op \in {"findNestedLayers", "findLayers"} =>
                   LayerIds(last.result) = found
            /\ last.op \in {"findNestedLayer", "findLayer"} =>
                   LayerIds(last.result) = IF found = <<>> THEN <<>> ELSE <<found[1]>>

\* findNestedLayers on the first root layer returned a layer nested two levels
\* down before the later directly nested layer.
C20_Witness ==
    /\ last.op = "findNestedLayers"
    /\ last.id = "l1"
    /\ LayerIds(last.result) = <<"l2", "l3", "l4">>

(***************************************************************************)
(* Properties of the Layer                                                 *)
(***************************************************************************)
\* The ids of the layers nested at any level below the layer id, in document
\* order.
AllNestedIds(tree, id) ==
    LET from == PathOf(tree, id)
        Below(l) == IsPrefix(from, PathOf(tree, l.id)) /\ l.id # id
    IN  [i \in 1..Len(SelectSeq(LayersWithDepth(tree, Null, 1), Below)) |->
            SelectSeq(LayersWithDepth(tree, Null, 1), Below)[i].id]

\* C21: getNestedLayers with an unset depth, with depth 0 and with depth
\* Infinity returns every layer nested at any level below the layer, in
\* document order.
C21_NestedLayersStep ==
    ( /\ last'.op = "getNestedLayers"
      /\ Artboard_isLoaded(artboard)
      /\ IsUnlimitedArgs(last'.args) ) =>
        LayerIds(last'.result) = AllNestedIds(artboard.octopus.layers, last'.id)

C21_NestedLayersUnlimited == [][C21_NestedLayersStep]_vars

\* The layer of the loaded artboard that has the id given.
LayerOfArtboard(id) ==
    LET layers == ComputeFlattenedLayers(artboard, <<>>)
    IN  layers[CHOOSE i \in 1..Len(layers) : Layer_id(layers[i]) = id]

\* C22: for every layer of a loaded artboard getDepth() is 1 for a root layer
\* and 1 plus the parent's getDepth() otherwise, which is its nesting level;
\* artboard.getLayerDepth(id) returns that depth for a layer of the artboard
\* and nothing for an id the artboard has no layer of.
C22_LayerDepth ==
    Artboard_isLoaded(artboard) =>
        LET tree == artboard.octopus.layers
            layers == ComputeFlattenedLayers(artboard, <<>>)
        IN  /\ \A i \in 1..Len(layers) :
                   LET depth == Layer_getDepth(layers[i], artboard)
                   IN  /\ ~depth.error
                       /\ depth.depth =
                             IF layers[i].parentLayerId = Null
                             THEN 1
                             ELSE 1 + Layer_getDepth(
                                          LayerOfArtboard(layers[i].parentLayerId),
                                          artboard).depth
                       /\ depth.depth = Len(PathOf(tree, Layer_id(layers[i])))
                       /\ Artboard_getLayerDepth(artboard, Layer_id(layers[i])) = depth
            /\ \A id \in (SearchLayerIds \cup {"l9"}) \ { Layer_id(layers[i]) : i \in 1..Len(layers) } :
                   Artboard_getLayerDepth(artboard, id) = [error |-> FALSE, depth |-> NoDepth]
            /\ (last.op = "getDepth" /\ last.args[1].artboard # Null) =>
                   (~last.error /\ last.result = <<Len(PathOf(tree, last.id))>>)
            /\ last.op = "getLayerDepth" =>
                   /\ ~last.error
                   /\ last.result =
                         IF \E i \in 1..Len(layers) : Layer_id(layers[i]) = last.id
                         THEN <<Len(PathOf(tree, last.id))>>
                         ELSE <<>>

\* getDepth() of a layer nested two levels below a root layer returned 3.
C22_Witness ==
    /\ Artboard_isLoaded(artboard)
    /\ last.op = "getDepth"
    /\ last.result = <<3>>
    /\ last.args[1].parentLayerId # Null

IsParentChainCall(call) ==
    call.op \in {"getParentLayer", "getParentLayers", "getParentLayerIds", "getDepth"}

\* C23 as stated: on a detached layer getParentLayer(), getParentLayers(),
\* getParentLayerIds() and getDepth() raise an error.
C23_DetachedLayerFails ==
    (IsParentChainCall(last) /\ last.args[1].artboard = Null) => last.error

\* C23, amended: on a detached layer getParentLayer(), getParentLayers(),
\* getParentLayerIds() and getDepth() raise an error exactly when the layer
\* has a parent layer id; a detached layer without one has no parent layer,
\* no parent layers, no parent layer ids and the depth 1.
C23_DetachedNestedLayerFails ==
    (IsParentChainCall(last) /\ last.args[1].artboard = Null) =>
        /\ last.error <=> last.args[1].parentLayerId # Null
        /\ ~last.error =>
              last.result = IF last.op = "getDepth" THEN <<1>> ELSE <<>>

\* getParentLayerIds() failed on a detached layer that has a parent layer id.
C23_Witness ==
    /\ last.op = "getParentLayerIds"
    /\ last.error
    /\ last.args[1].artboard = Null
    /\ last.args[1].parentLayerId = "l1"

(***************************************************************************)
(* Properties of component artboard resolution                             *)
(***************************************************************************)
\* The layer of a getComponentArtboard() call refers to an artboard.
HasComponentReference(layer) ==
    Truthy(Layer_componentArtboardId(layer)) \/ Truthy(Layer_symbolID(layer))

\* The references to the artboards of the design that the layer refers to:
\* by its artboard id when it has one, by its component id otherwise.
ReferencedArtboards(layer) ==
    { Ref(artboardList[i]) : i \in
        { j \in 1..Len(artboardList) :
            IF Truthy(Layer_componentArtboardId(layer))
            THEN Artboard_id(artboardList[j]) = Layer_componentArtboardId(layer)
            ELSE Artboard_componentId(artboardList[j]) = Layer_symbolID(layer) } }

\* The call returned the referenced artboard of the design, or the not-found
\* result when the design holds none.
ResolvedInDesign(call) ==
    /\ ~call.error
    /\ IF ReferencedArtboards(call.args[1]) = {}
       THEN call.result = <<NoArtboard>>
       ELSE call.result[1] \in ReferencedArtboards(call.args[1])

\* C24 as stated: getComponentArtboard() raises an error when the layer has no
\* artboard or its artboard has no design, and otherwise returns the design's
\* artboard the layer refers to, or the not-found result.
C24_FailsWithoutDesign ==
    last.op = "getComponentArtboard" =>
        IF last.returned THEN ResolvedInDesign(last) ELSE last.error

\* What the design of the layer's artboard answers to the lookup the layer's
\* references ask for: by artboard id when the layer has one, by component
\* id otherwise.
DesignLookup(layer) ==
    IF Truthy(Layer_componentArtboardId(layer))
    THEN Design_getArtboardById(artboardList, Layer_componentArtboardId(layer))
    ELSE Design_getArtboardByComponentId(artboardList, Layer_symbolID(layer))

\* C24: getComponentArtboard() returns the not-found result for a layer that
\* refers to no artboard, whoever owns it; for a layer with an artboard-id or
\* a component-id reference it raises an error when the layer has no artboard
\* or its artboard has no design, and otherwise raises none and returns what
\* the design answers to the lookup by that artboard id, which takes
\* precedence, or by that component id.
C24_ReferenceFailsWithoutDesign ==
    last.op = "getComponentArtboard" =>
        IF ~HasComponentReference(last.args[1])
        THEN ~last.error /\ last.result = <<NoArtboard>>
        ELSE IF last.returned
        THEN ~last.error /\ last.result = <<DesignLookup(last.args[1])>>
        ELSE last.error

\* A component instance without a design failed, with artboards in the design.
C24_Witness ==
    /\ last.op = "getComponentArtboard"
    /\ HasComponentReference(last.args[1])
    /\ ~last.returned
    /\ last.error
    /\ Len(artboardList) > 0

(***************************************************************************)
(* Properties of bitmap asset aggregation                                  *)
(***************************************************************************)
\* The depth limit of an options list: unset and 0 mean no limit.
AssetDepthLimit(args) ==
    IF args # <<>> /\ "depth" \in args[1].keys /\ args[1].vals.depth # 0
    THEN args[1].vals.depth
    ELSE Infinity

\* The options list asks for the pre-rendered assets as well.
WithPrerendered(args) ==
    args = <<>> \/ "includePrerendered" \notin args[1].keys
               \/ args[1].vals.includePrerendered

\* The layers of the tree a getBitmapAssets call on the layer id covers: the
\* layer, at level 1, and the layers nested in it down to the level depth.
AssetScope(tree, id, depth) ==
    LET all == FlattenLayers(tree, Null, Null, Infinity)
    IN  { all[i].octopus : i \in
            { j \in 1..Len(all) :
                /\ IsPrefix(PathOf(tree, id), PathOf(tree, Layer_id(all[j])))
                /\ Len(PathOf(tree, Layer_id(all[j]))) - Len(PathOf(tree, id)) < depth } }

\* The names of the bitmap assets a layer content uses.
AssetNames(layerOctopus, prerendered) ==
    (IF "bitmaps" \in DOMAIN layerOctopus
     THEN { layerOctopus.bitmaps[i] : i \in 1..Len(layerOctopus.bitmaps) }
     ELSE {})
    \cup (IF prerendered /\ "prerendered" \in DOMAIN layerOctopus
          THEN { layerOctopus.prerendered[i] : i \in 1..Len(layerOctopus.prerendered) }
          ELSE {})

\* C25: on a layer of the loaded content getBitmapAssets({depth}) returns
\* exactly one descriptor per bitmap asset used by the layer or by the layers
\* nested in it down to the depth limit, the layer being level 1, and the layer
\* ids of a descriptor are, each once, the ids of all those layers that use
\* the asset.
C25_AssetDeduplication ==
    (last.op = "getBitmapAssets" /\ Artboard_isLoaded(artboard)) =>
        LET scope == AssetScope(artboard.octopus.layers, last.id,
                                AssetDepthLimit(last.args))
            Users(name) == { l.id : l \in { s \in scope :
                                name \in AssetNames(s, WithPrerendered(last.args)) } }
            descs == last.result
        IN  /\ \A i, j \in 1..Len(descs) : descs[i].name = descs[j].name => i = j
            /\ { descs[i].name : i \in 1..Len(descs) }
                 = UNION { AssetNames(s, WithPrerendered(last.args)) : s \in scope }
            /\ \A i \in 1..Len(descs) :
                  /\ { descs[i].layerIds[k] : k \in 1..Len(descs[i].layerIds) }
                       = Users(descs[i].name)
                  /\ Len(descs[i].layerIds) = Cardinality(Users(descs[i].name))

\* Two sibling layers using one asset gave one descriptor with both ids, the
\* deeper use of the asset lying below the depth limit.
C25_Witness ==
    /\ last.op = "getBitmapAssets"
    /\ last.id = "l1"
    /\ AssetDepthLimit(last.args) = 2
    /\ \E i \in 1..Len(last.result) :
          /\ last.result[i].name = "x"
          /\ last.result[i].layerIds = <<"l2", "l3">>

(***************************************************************************)
(* Properties of the component artboard lookups of the Design              *)
(***************************************************************************)
\* The artboards of the design that are components, in insertion order.
ComponentArtboardsOf(list) ==
    LET IsComponent(ab) == Artboard_componentId(ab) # Null
    IN  Refs(SelectSeq(list, IsComponent))

\* C26: getArtboardByComponentId(c) returns an artboard that is in the design
\* and has the component id c, or nothing when the design has no such
\* artboard, as after its removal; getComponentArtboards() returns exactly the
\* artboards of the design with a non-null component id, in insertion order.
C26_ComponentArtboardLookup ==
    /\ last.op = "getArtboardByComponentId" =>
          LET matching == { i \in 1..Len(artboardList) :
                              Artboard_componentId(artboardList[i]) = last.id }
          IN  IF matching = {}
              THEN last.result = <<NoArtboard>>
              ELSE \E i \in matching : last.result = <<Ref(artboardList[i])>>
    /\ last.op = "getComponentArtboards" =>
          last.result = ComponentArtboardsOf(artboardList)

\* The component was looked up and found behind an artboard that is none.
C26_Witness ==
    /\ last.op = "getArtboardByComponentId"
    /\ Len(artboardList) = 2
    /\ ~Artboard_isComponent(artboardList[1])
    /\ last.result = <<Ref(artboardList[2])>>

\* The component was looked up in vain after the removal of its artboard.
C26_WitnessRemoved ==
    /\ last.op = "getArtboardByComponentId"
    /\ last.id \in ComponentIds
    /\ nextUid > 1
    /\ artboardList = <<>>
    /\ last.result = <<NoArtboard>>

(***************************************************************************)
(* Properties of the lookups of the Design that find nothing               *)
(***************************************************************************)
\* The layers of all the artboards of the design.
DesignLayers == Design_getFlattenedLayers(artboardList, <<>>)

\* No layer of the design satisfies the selector of the call.
NoLayerMatches(call) ==
    \A i \in 1..Len(DesignLayers) : ~MatchLayer(call.args[1], DesignLayers[i])

\* No layer the aggregate of the call covers uses a bitmap asset, or a font.
NothingUsed(call, field) ==
    LET covered == Design_getFlattenedLayers(artboardList,
                       <<DepthOptions(0, AssetDepthLimit(call.args))>>)
    IN  \A i \in 1..Len(covered) :
           field \in DOMAIN covered[i].octopus => covered[i].octopus[field] = <<>>

\* C27: on a design, the empty one included, a lookup that nothing matches
\* raises no error: findLayerById, findLayer and findArtboard return nothing,
\* and findLayersById, findLayers, getBitmapAssets, getFonts and
\* getFlattenedLayers return empty sequences.
C27_NotFoundIsNoError ==
    /\ (last.op \in {"findLayerById", "findLayer"} /\ NoLayerMatches(last)) =>
          ~last.error /\ last.result = <<NoLayer>>
    /\ (last.op \in {"findLayersById", "findLayers"} /\ NoLayerMatches(last)) =>
          ~last.error /\ last.result = <<>>
    /\ (last.op = "getBitmapAssets"
        /\ NothingUsed(last, "bitmaps") /\ NothingUsed(last, "prerendered")) =>
          ~last.error /\ last.result = <<>>
    /\ (last.op = "getFonts" /\ NothingUsed(last, "fonts")) =>
          ~last.error /\ last.result = <<>>
    /\ (last.op = "getFlattenedLayers" /\ DesignLayers = <<>>) =>
          ~last.error /\ last.result = <<>>
    /\ (last.op = "findArtboard"
        /\ \A i \in 1..Len(artboardList) : ~MatchArtboard(last.args[1], artboardList[i])) =>
          ~last.error /\ last.result = <<NoArtboard>>

\* A layer was searched for in vain in a design that has artboards and layers.
C27_Witness ==
    /\ last.op = "findLayer"
    /\ DesignLayers # <<>>
    /\ NoLayerMatches(last)
    /\ last.result = <<NoLayer>>

(***************************************************************************)
(* Properties of the Sdk                                                   *)
(***************************************************************************)
\* The step is the call of an operation by c, and a call of destroy() by d:
\* by a user, or by the error handler of the engine d.
IsOperationCall(c) == sdk.calls[c].pc = "idle" /\ sdk'.calls[c].pc # "idle"
IsDestroyCall(d) == sdk.destroys[d].pc = "idle" /\ sdk'.destroys[d].pc # "idle"

\* C28: once destroy() has been called isDestroyed() stays true; a destroy()
\* call on a destroyed Sdk returns at once and destroys no collaborator and no
\* rendering engine, and leaves the engine slot alone; an operation called on
\* a destroyed Sdk is rejected with 'The SDK has been destroyed.' and invokes
\* no collaborator.
C28_DestroyStep ==
    /\ Sdk_isDestroyed(sdk) => Sdk_isDestroyed(sdk')
    /\ \A d \in Destroyers :
          IsDestroyCall(d) =>
              /\ Sdk_isDestroyed(sdk')
              /\ Sdk_isDestroyed(sdk) =>
                    /\ sdk'.destroys[d].pc = "done"
                    /\ sdk'.destroyCalls = sdk.destroyCalls
                    /\ sdk'.renderingEngine = sdk.renderingEngine
                    /\ \A e \in Callers :
                          sdk'.engines[e] = "destroyed" => sdk.engines[e] = "destroyed"
    /\ \A c \in Callers :
          (IsOperationCall(c) /\ Sdk_isDestroyed(sdk)) =>
              /\ sdk'.calls[c].op \in SdkOperations
              /\ sdk'.calls[c].pc = "rejected"
              /\ sdk'.calls[c].error = DestroyedMessage
              /\ sdk'.invoked = sdk.invoked

C28_DestroyLifecycle == [][C28_DestroyStep]_vars

\* Both users called destroy(), and an operation called afterwards was
\* rejected, the collaborators having been destroyed once.
C28_Witness ==
    /\ \A d \in DestroyCallers : sdk.destroys[d].pc = "done"
    /\ last.op \in SdkOperations
    /\ last.error
    /\ last.result = <<DestroyedMessage>>
    /\ sdk.calls[last.id].error = DestroyedMessage
    /\ sdk.destroyCalls["openDesignApi"] = 1

\* No call of an operation or of destroy() is in flight, and no engine is
\* starting.
SdkQuiescent ==
    /\ \A c \in Callers : sdk.calls[c].pc \in {"idle", "done", "rejected"}
    /\ \A d \in Destroyers : sdk.destroys[d].pc \in {"idle", "done"}
    /\ \A e \in Callers : sdk.engines[e] # "starting"

\* C29: when a destroy() call of a user has completed and the operations that
\* were in flight have finished, no rendering engine the Sdk created is
\* running.
C29_NoEngineLeftRunning ==
    ( /\ \E d \in DestroyCallers : sdk.destroys[d].pc = "done"
      /\ SdkQuiescent ) =>
        \A e \in Callers : sdk.engines[e] # "running"

\* cached and rendering are enabled unless set to false.
OptionEnabled(option) == option # JsFalse

\* C30: createSdk called with a token fails exactly when rendering is enabled
\* and the local cache is disabled, an option left out being enabled; and an
\* Sdk it returned has the rendering engine factory only if it has the local
\* design cache.
C30_ConfigurationGuard ==
    /\ (last.op = "createSdk" /\ Truthy(last.args[1].token)) =>
          (~sdk.created <=> ( /\ OptionEnabled(last.args[1].rendering)
                              /\ ~OptionEnabled(last.args[1].cached) ))
    /\ sdk.created => (sdk.renderingEngineFactory => sdk.localDesignCache)

(***************************************************************************)
(* Properties of the LayerCollectionFacade                                 *)
(***************************************************************************)
\* C31: the layers getLayers() and the iterator return are as many as
\* facade.length says.
C31_LengthMatchesLayers ==
    last.op \in {"getLayers", "iterate"} =>
        Len(last.result) = LayerCollectionFacade_length(facade)

\* The artboards the layer facades of the collection come from.
FacadeArtboards ==
    { LayerCollectionFacade_computeLayers(facade)[i].artboardId :
        i \in 1..Len(LayerCollectionFacade_computeLayers(facade)) }

\* C32: renderToFile, exportToSvgCode and exportToSvgFile are accepted exactly
\* when the layers of the collection come from a single artboard, and then
\* hand that artboard's id and the ids of all the layers to the design
\* facade.
C32_SingleArtboardRendering ==
    last.op \in {"renderToFile", "exportToSvgCode", "exportToSvgFile"} =>
        /\ ~last.error <=> Cardinality(FacadeArtboards) = 1
        /\ ~last.error =>
              /\ last.args[1] \in FacadeArtboards
              /\ last.args[2] = FacadeLayerIds(LayerCollectionFacade_computeLayers(facade))

(***************************************************************************)
(* Properties of the derived layer views                                   *)
(***************************************************************************)
\* C33: in every state getRootLayers() and getFlattenedLayers({depth: 1})
\* list the same layer ids in the same order.
C33_ConsistentViews ==
    LayerIds(Artboard_getRootLayers(artboard).result)
        = LayerIds(Artboard_getFlattenedLayers(artboard, <<DepthOptions(1, 1)>>).result)

(***************************************************************************)
(* Properties of the parent and mask lookups of a Layer                    *)
(***************************************************************************)
\* The id the layer of the last call declares as its parent or its mask.
DeclaredLayerId ==
    IF last.op = "getParentLayer"
    THEN last.args[1].parentLayerId
    ELSE Layer_getMaskLayerId(last.args[1])

\* The layer of that id among the layers of the artboard.
DeclaredLayer == Artboard_getLayerById(artboard, DeclaredLayerId).result

\* The layer of that id in the content of the artboard.
DeclaredLayerInContent ==
    LayerCollection_getLayerById(
        CreateFlattenedLayers(artboard.octopus.layers, Artboard_id(artboard), Infinity),
        DeclaredLayerId)

\* C34: getParentLayer() and getMaskLayer() return nothing when the layer
\* declares no parent or mask, fail when the declared layer is not found
\* among the layers of the artboard (or the layer has no artboard), and
\* otherwise return the layer found; the layers of a loaded artboard are
\* those of its content.
C34_DanglingReferenceFails ==
    last.op \in {"getParentLayer", "getMaskLayer"} =>
        /\ IF ~Truthy(DeclaredLayerId)
           THEN ~last.error /\ last.result = <<>>
           ELSE IF last.args[1].artboard = Null \/ DeclaredLayer = NoLayer
                THEN last.error
                ELSE ~last.error /\ last.result = <<DeclaredLayer>>
        /\ (Truthy(DeclaredLayerId) /\ Artboard_isLoaded(artboard)) =>
              DeclaredLayer = DeclaredLayerInContent

\* A layer of the artboard whose parent is not among the layers of the
\* artboard any more was asked for its parent, and the call failed.
C34_Witness ==
    /\ last.op = "getParentLayer"
    /\ Truthy(DeclaredLayerId)
    /\ last.args[1].artboard # Null
    /\ Artboard_isLoaded(artboard)
    /\ DeclaredLayer = NoLayer
    /\ last.error

\* The same for a mask layer that is not found, and for a layer that
\* declares no mask.
C34_WitnessMask ==
    /\ last.op = "getMaskLayer"
    /\ Truthy(DeclaredLayerId)
    /\ last.args[1].artboard # Null
    /\ DeclaredLayer = NoLayer
    /\ last.error
C34_WitnessNoMask ==
    /\ last.op = "getMaskLayer"
    /\ ~Truthy(DeclaredLayerId)
    /\ last.result = <<>>
    /\ ~last.error

(***************************************************************************)
(* Properties of the frame of the Design mutations                         *)
(***************************************************************************)
\* The artboards of the list other than id, by their identity.
OtherArtboards(list, id) ==
    { list[i] : i \in { j \in 1..Len(list) : Artboard_id(list[j]) # id } }

\* C35: addArtboard and removeArtboard of the artboard X leave the content,
\* the manifest, the load state and the cached layer views of every other
\* artboard of the design as they were.
C35_Step ==
    last'.op \in {"addArtboard", "removeArtboard"} =>
        OtherArtboards(artboardList', last'.id) = OtherArtboards(artboardList, last'.id)
C35_DesignMutationFrame == [][C35_Step]_vars

\* An artboard was removed, or added, while another artboard of the design
\* was loaded and held layer views.
C35_Witness ==
    /\ last.op = "removeArtboard"
    /\ last.returned
    /\ \E other \in OtherArtboards(artboardList, last.id) :
          /\ Artboard_isLoaded(other)
          /\ other.rootLayersCache # <<>>
          /\ other.flattenedLayersCache # <<>>
C35_WitnessAdded ==
    /\ last.op = "addArtboard"
    /\ ~last.error
    /\ \E other \in OtherArtboards(artboardList, last.id) :
          /\ ~Artboard_isLoaded(other)
          /\ other.rootLayersCache # <<>>

(***************************************************************************)
(* Properties of the lookups of the Page                                   *)
(***************************************************************************)
PageLookups ==
    {"Page.getArtboardById", "Page.getArtboardByComponentId",
     "Page.findArtboard", "Page.findArtboards"}

\* The artboards of the design that are on the page and match the selector.
MatchesOnPage(pageId, selector) ==
    { i \in 1..Len(artboardList) :
        /\ Artboard_pageId(artboardList[i]) = pageId
        /\ SelectorMatches(selector, artboardList[i]) }

\* The first item of a list, as a list; the empty list of an empty list.
FirstOf(list) == IF list = <<>> THEN <<>> ELSE <<list[1]>>

\* C36: the lookups of a page return artboards of that page only, by the id
\* shortcut and by the general selector path alike, and findArtboard(s)
\* returns the first artboard of findArtboards(s), or nothing.
C36_PageScopedLookups ==
    last.op \in PageLookups =>
        /\ \A i \in 1..Len(last.result) :
              /\ \E j \in 1..Len(artboardList) : artboardList[j].uid = last.result[i].uid
              /\ Artboard_pageId(Referenced(artboardList, last.result[i])) = last.pageId
        /\ last.op = "Page.findArtboard" =>
              last.result = FirstOf(Page_findArtboards(artboardList, last.pageId,
                                                       last.args[1]))
        /\ last.op = "Page.findArtboards" =>
              { last.result[i].uid : i \in 1..Len(last.result) }
                  = { artboardList[i].uid : i \in MatchesOnPage(last.pageId, last.args[1]) }

\* A page was asked for a component artboard that the design has, on the
\* other page, and returned nothing.
C36_Witness ==
    /\ last.op = "Page.getArtboardByComponentId"
    /\ last.result = <<>>
    /\ Design_getArtboardByComponentId(artboardList, last.args[1]) # NoArtboard

\* A page was searched with a function matching artboards of both pages and
\* returned its own.
C36_WitnessGeneral ==
    /\ last.op = "Page.findArtboards"
    /\ last.args[1].kind = "function"
    /\ Len(last.result) = 1
    /\ Len(artboardList) = 2
    /\ \A i \in 1..2 : SelectorMatches(last.args[1], artboardList[i])


(***************************************************************************)
(* Properties of the parent chain of a Layer                               *)
(***************************************************************************)
\* The ids of the ancestors of the layer at the path, nearest first.
AncestorIds(tree, path) ==
    [k \in 1..(Len(path) - 1) |->
        (CHOOSE p \in LayerPaths(tree, <<>>, 1) :
            p.path = SubSeq(path, 1, Len(path) - k)).id]

\* C37: for every layer of a loaded artboard whose layer ids are unique,
\* getParentLayerIds() ends without an error and lists the ids of the layer's
\* ancestors from the nearest up to a root layer, and getDepth() is 1 plus the
\* length of that list.
C37_ParentChainAndDepth ==
    Artboard_isLoaded(artboard) =>
        LET tree == artboard.octopus.layers
            layers == ComputeFlattenedLayers(artboard, <<>>)
        IN  /\ \A i \in 1..Len(layers) :
                   LET chain == Layer_getParentLayerIds(layers[i], artboard)
                       depth == Layer_getDepth(layers[i], artboard)
                   IN  /\ ~chain.error
                       /\ chain.ids = AncestorIds(tree, PathOf(tree, Layer_id(layers[i])))
                       /\ (chain.ids # <<>> =>
                              LayerOfArtboard(chain.ids[Len(chain.ids)]).parentLayerId = Null)
                       /\ ~depth.error
                       /\ depth.depth = 1 + Len(chain.ids)
            /\ (last.op = "getParentLayerIds" /\ last.args[1].artboard # Null) =>
                   /\ ~last.error
                   /\ last.result = AncestorIds(tree, PathOf(tree, last.id))
                   /\ Layer_getDepth(last.args[1], artboard).depth = 1 + Len(last.result)

C37_Witness ==
    /\ Artboard_isLoaded(artboard)
    /\ last.op = "getParentLayerIds"
    /\ last.args[1].artboard # Null
    /\ ~last.error
    /\ Len(last.result) = 2

(***************************************************************************)
(* Properties of the component id of the Artboard                          *)
(***************************************************************************)
ComponentIdStaysStep ==
    Artboard_componentId(artboard) # Null => Artboard_componentId(artboard') # Null

ComponentIdDecidesIsComponent ==
    /\ Artboard_isComponent(artboard) <=> (Artboard_componentId(artboard) # Null)
    /\ last.op = "isComponent" =>
           last.result = <<Artboard_componentId(artboard) # Null>>

\* C38: once the artboard has a component id, no setOctopus (content without
\* a symbol id included), unload, setPage or unassignFromPage leaves it
\* without one, and isComponent() is true exactly when the component id is
\* not null.
C38_ComponentIdIsSticky ==
    []ComponentIdDecidesIsComponent /\ [][ComponentIdStaysStep]_vars

C38_Witness ==
    /\ last.op = "setOctopus"
    /\ last.octopus.symbolID = Undefined
    /\ Artboard_componentId(artboard) # Null
    /\ Artboard_isComponent(artboard)

C38_WitnessUnloaded ==
    /\ last.op = "isComponent"
    /\ last.result = <<TRUE>>
    /\ ~Artboard_isLoaded(artboard)

(***************************************************************************)
(* Properties of the rendering engine of the Sdk                           *)
(***************************************************************************)
\* The engines the factory was asked for, each named after the call that
\* asked.
FactoryInvocations == { e \in Callers : sdk.engines[e] # "none" }

\* The calls that reached _getRenderingEngine().
EngineRequests == { c \in Callers : sdk.calls[c].pc \in {"awaitRenderingEngine", "done"}
                                      /\ ReachesRenderingEngine(sdk, sdk.calls[c].op) }

\* C39: while the Sdk is not destroyed the rendering engine factory has been
\* invoked at most once, whatever the number of operations called one after
\* another or side by side, and the operations that asked share its engine;
\* when the invocation has failed the Sdk is destroyed and the operation that
\* awaits the engine goes on to its end with no engine to create a rendering
\* design with, and does not fail.
C39_LazySingleRenderingEngine ==
    /\ ~sdk.destroyed =>
           /\ Cardinality(FactoryInvocations) <= 1
           /\ \A c \in EngineRequests :
                  sdk.calls[c].awaited =
                     IF sdk.renderingEngineFactory THEN sdk.renderingEngine ELSE NoEngine
           /\ (EngineRequests # {} /\ sdk.renderingEngineFactory) =>
                  Cardinality(FactoryInvocations) = 1
    /\ \A e \in Callers :
           sdk.engines[e] = "failed" =>
              /\ sdk.destroyed
              /\ sdk.destroys[e].pc # "idle"
              /\ \A c \in Callers :
                     (sdk.calls[c].awaited = e) =>
                        /\ sdk.calls[c].pc \in {"awaitRenderingEngine", "done"}
                        /\ sdk.calls[c].error = Null
                        /\ EngineSettled(sdk, e)
                        /\ EngineValue(sdk, sdk.calls[c].awaited) = NoEngine

\* Two operations in flight share the one engine of an Sdk that is not
\* destroyed.
C39_Witness ==
    /\ ~sdk.destroyed
    /\ \A c \in Callers : sdk.calls[c].pc = "done" /\ sdk.calls[c].awaited = "c1"
    /\ sdk.engines["c1"] = "running"

\* The factory failed and the operation that asked for the engine is done.
C39_WitnessFailed ==
    /\ sdk.engines["c1"] = "failed"
    /\ sdk.calls["c1"].pc = "done"
    /\ sdk.calls["c1"].awaited = "c1"
    /\ sdk.destroyed

(***************************************************************************)
(* Properties of the readiness of the RenderingArtboard                    *)
(***************************************************************************)
ReadyHasNothingPending ==
    renderingArtboard.ready => renderingArtboard.pendingSymbolIds = <<>>

\* After a load() that succeeded, what the dependency query reported is
\* stored and decides ready.
SuccessfulLoadDecidesReady ==
    (last.op = "load" /\ ~last.error) =>
        LET reported == ListOrEmpty(last.args[1].symbols)
        IN  /\ renderingArtboard.pendingSymbolIds = reported
            /\ renderingArtboard.ready <=> (reported = <<>>)

\* A load() that failed, with no other load() called since it was called,
\* finds ready and pendingSymbolIds as they were at its call.
FailedLoadKeepsReadiness ==
    \A c \in Callers :
        (/\ renderingArtboard.loads[c].pc = "failed"
         /\ \A other \in Callers \ {c} : renderingArtboard.loads[other].pc = "idle") =>
            /\ renderingArtboard.ready = renderingArtboard.loads[c].readyBefore
            /\ renderingArtboard.pendingSymbolIds = renderingArtboard.loads[c].pendingBefore

\* Only a load() that ends without an error changes ready and
\* pendingSymbolIds.
OnlySuccessChangesReadinessStep ==
    ~(\E c \in Callers : /\ renderingArtboard.loads[c].pc = "awaitDependencies"
                          /\ renderingArtboard'.loads[c].pc = "done") =>
        /\ renderingArtboard'.ready = renderingArtboard.ready
        /\ renderingArtboard'.pendingSymbolIds = renderingArtboard.pendingSymbolIds

\* C40: ready is true only if pendingSymbolIds is empty; after a load() that
\* succeeded ready is true exactly when the reported list of pending symbols
\* is empty; a load() that fails, a load command or the dependency query
\* being not ok, leaves ready and pendingSymbolIds as they were.
C40_ReadinessInvariant ==
    /\ [](ReadyHasNothingPending /\ SuccessfulLoadDecidesReady /\ FailedLoadKeepsReadiness)
    /\ [][OnlySuccessChangesReadinessStep]_vars

\* A load() failed at the dependency query on an artboard that an earlier
\* load() left with a pending symbol.
C40_Witness ==
    /\ last.op = "load"
    /\ last.error
    /\ last.result = <<DependencyMessage>>
    /\ renderingArtboard.loads["c2"].pc = "idle"
    /\ renderingArtboard.loads["c1"].pendingBefore = <<"s2", "s3">>
    /\ renderingArtboard.pendingSymbolIds = <<"s2", "s3">>
    /\ ~renderingArtboard.ready

C40_WitnessReady ==
    /\ last.op = "load"
    /\ ~last.error
    /\ last.args[1].symbols = LeftOut
    /\ renderingArtboard.ready
    /\ renderingArtboard.loads[last.id].pendingBefore = <<"s2">>

C40_WitnessSymbolLoadFails ==
    /\ last.op = "load"
    /\ last.error
    /\ last.result = <<LoadMessage>>
    /\ renderingArtboard.symbolId = "s1"
    /\ renderingArtboard.loads[last.id].loadOk
====
